---- MODULE Spec2Model ----
(***************************************************************************)
(* Session record lifecycle of go-session (session.go): the Manager's      *)
(* operations on one request scope's sessionData, shared by concurrent     *)
(* sub-tasks of the request, against a Store keyed by token.               *)
(*                                                                         *)
(* Time is a small integer clock.  Tokens are the integers 1..MaxTokens;   *)
(* the empty string token is NoToken.  generateToken draws 256 random      *)
(* bits, so a generated token is modelled as one never seen before.        *)
(***************************************************************************)
EXTENDS Integers, FiniteSets, Sequences, TLC

VARIABLES
    sd,           \* the *sessionData attached to the request scope, or NoData
    mu,           \* holder of sd.mu: a task, or Free
    store,        \* the Store: token -> NoRow or [b, expiry]
    now,          \* time.Now()
    IdleTimeout,  \* Manager.IdleTimeout
    Lifetime,     \* Manager.Lifetime
    task,         \* per sub-task: the operation in progress, its position, its locals
    ret,          \* what the operation that returned last returned
    nTok,         \* number of tokens generateToken has produced
    hist,         \* history of the attached record (observation only)
    env,          \* the requests: their number, sub-tasks, the keys, values, tokens,
                  \* options, times and types their handlers pass, the idle timeouts
                  \* configured, the keys and deadlines of earlier sessions
    nReq          \* number of requests that have attached a record to their scope

vars == <<sd, mu, store, now, IdleTimeout, Lifetime, task, ret, nTok, hist, env, nReq>>

----------------------------------------------------------------------------
(* Bounds *)

MaxTime == 2

MaxTokens == 2

(* Program constants *)

NoToken == 0

ZeroTime == 0

----------------------------------------------------------------------------
(* Domains *)

Tasks == {"t1", "t2"}

Free == "free"

NoTask == "none"

Tokens == 1..MaxTokens

\* the keys of the Store: the tokens and the empty string
StoreKeys == Tokens \cup {NoToken}

\* Manager.Lifetime
Lifetimes == {1}

\* the lifetimes handlers pass in WithLifetime
OptionLifetimes == {2}

IdleTimeouts == {0, 1}

Times == 1..(MaxTime + 1)

Keys == {"k1", "k2"}

Vals == {[type |-> "string", val |-> "s"], [type |-> "bool", val |-> "true"]}

\* the types of the typed Get wrappers
Types == {"string", "bool", "int", "int64", "int32", "float64", "bytes", "time"}

\* one value of each of these types
TypedVals == {[type |-> type, val |-> "v"] : type \in Types}

Nil == [type |-> "nil", val |-> "nil"]

Unmodified == "Unmodified"

Modified == "Modified"

Destroyed == "Destroyed"

ErrUnmodified == "unmodified"

ErrStore == "store error"

ErrCodec == "codec error"

ErrRand == "rand error"

\* the error the callback of Iterate returns
ErrFn == "fn error"

NoErr == "nil"

NoData == [status |-> "none"]

NoRow == [expiry |-> ZeroTime]

NoArg == [kind |-> "none"]

Idle == [op |-> "none", pc |-> "idle", arg |-> NoArg, calls |-> <<>>]

EmptyValues == [k \in {} |-> Nil]

----------------------------------------------------------------------------
(* Options *)

WithLifetime(lifetime) == [kind |-> "WithLifetime", lifetime |-> lifetime, deadline |-> ZeroTime]

WithDeadline(deadline) == [kind |-> "WithDeadline", lifetime |-> 0, deadline |-> deadline]

NoOption == [kind |-> "none", lifetime |-> 0, deadline |-> ZeroTime]

Options == {NoOption} \cup {WithLifetime(l) : l \in OptionLifetimes} \cup {WithDeadline(d) : d \in Times}

\* for _, option := range options { option(sd) }
ApplyOption(s, option) ==
    CASE option.kind = "WithLifetime" -> [s EXCEPT !.deadline = now + option.lifetime]
      [] option.kind = "WithDeadline" -> [s EXCEPT !.deadline = option.deadline]
      [] OTHER -> s

newSessionData(lifetime) ==
    [deadline |-> now + lifetime, status |-> Unmodified, token |-> NoToken,
     values |-> EmptyValues]

----------------------------------------------------------------------------
(* Codec: the gob encoding of the pair (deadline, values) *)

\* mutation of Encode: the values are left out of the encoding
EncodeDeadlineOnly(deadline, values) == [Deadline |-> deadline, Values |-> {}]

Encode(deadline, values) ==
    [Deadline |-> deadline, Values |-> {<<k, values[k]>> : k \in DOMAIN values}]

DecodeDeadline(b) == b.Deadline

DecodeValues(b) ==
    [k \in {p[1] : p \in b.Values} |-> (CHOOSE p \in b.Values : p[1] = k)[2]]

----------------------------------------------------------------------------
(* Store *)

StoreFound(token) ==
    /\ store[token] # NoRow
    /\ now < store[token].expiry

StoreCommit(token, b, expiry) ==
    [store EXCEPT ![token] = [b |-> b, expiry |-> expiry]]

StoreDelete(token) == [store EXCEPT ![token] = NoRow]

\* All: the bytes of every session that has not expired, by token
StoreAll == [k \in {k \in StoreKeys : StoreFound(k)} |-> store[k].b]

----------------------------------------------------------------------------
(* History of the attached record, reset when a record is created and when *)
(* Destroy or RenewToken gives it a new identity.                           *)

\*   generated  tokens Commit generated for the record
\*   upserted   tokens Commit upserted a row under
\*   returned   tokens the successful Commits returned
\*     (these three since the record was created or last given a new identity)
\*   last       the task whose Commit succeeded last since the record was
\*              created or reset by Destroy, NoTask if none did
\*   prev       the token the record had before its last Destroy or RenewToken
\*   loaded     the record as Load attached it after a Store hit, NoData for a
\*              fresh record and after a Destroy or RenewToken
NoHist ==
    [generated |-> {}, upserted |-> {}, returned |-> {}, last |-> NoTask, prev |-> NoToken,
     loaded |-> NoData]

\* What an operation hands to its caller when it returns: (token, expiry, err)
\* for Save and Commit, err for the others, val for the accessors; arg is the
\* argument it was called with and calls lists the Store and Codec calls it
\* made.  ret holds it during the return and is NoRet otherwise.
NoRet == [op |-> "none"]

Result(t, op, arg, token, expiry, err, val, calls) ==
    [task |-> t, op |-> op, arg |-> arg, token |-> token, expiry |-> expiry,
     err |-> err, val |-> val, calls |-> calls]

ResultErr(t, op, arg, err, calls) == Result(t, op, arg, NoToken, ZeroTime, err, Nil, calls)

ResultVal(t, op, arg, val) == Result(t, op, arg, NoToken, ZeroTime, NoErr, val, <<>>)

\* mutation of Ready: the accessors do not take the lock
ReadyNoMutex(t) == ret = NoRet /\ t \in env.tasks /\ task[t] = Idle /\ sd # NoData

\* sd.mu.Lock() of an accessor that holds the lock for its in-memory body only
Ready(t) == ret = NoRet /\ t \in env.tasks /\ task[t] = Idle /\ sd # NoData /\ mu = Free

\* the caller takes the result
Return ==
    /\ ret # NoRet
    /\ ret' = NoRet
    /\ UNCHANGED <<sd, mu, store, now, IdleTimeout, Lifetime, task, nTok, hist, env, nReq>>

----------------------------------------------------------------------------
\* The mappings an earlier request may have stored: every key of keys set.
EarlierValues(keys, vals) == [keys -> vals]

\* The rows an earlier request's Commit wrote under token 1 and that are
\* still live, for sessions with a deadline in times and a Manager with idle
\* timeout idle.
EarlierRows(keys, vals, times, idle) ==
    {[b |-> Encode(d, v), expiry |-> IF idle > 0 /\ 1 + idle < d THEN 1 + idle ELSE d] :
        d \in times \ {1}, v \in EarlierValues(keys, vals)}

InitWith(e) ==
    /\ env = e
    /\ sd = NoData
    /\ mu = Free
    /\ now = 1
    /\ IdleTimeout \in e.idle
    /\ Lifetime \in Lifetimes
    /\ \/ store = [k \in StoreKeys |-> NoRow] /\ nTok = 0
       \/ \E r \in EarlierRows(e.stored, e.vals, e.earlier, IdleTimeout) :
            store = [k \in StoreKeys |-> IF k = 1 THEN r ELSE NoRow] /\ nTok = 1
    /\ task = [t \in Tasks |-> Idle]
    /\ ret = NoRet
    /\ nReq = 0
    /\ hist = NoHist

\* one request whose handler runs sequentially
Init ==
    InitWith([requests |-> 1, tasks |-> {"t1"}, keys |-> {"k1"}, stored |-> {"k1"},
              vals |-> {[type |-> "string", val |-> "s"]}, idle |-> IdleTimeouts,
              tokens |-> StoreKeys, types |-> Types,
              options |-> Options, times |-> Times, earlier |-> Times])

\* one request whose handler fans out to two concurrent sub-tasks
InitConc ==
    InitWith([requests |-> 1, tasks |-> {"t1", "t2"}, keys |-> {"k1"}, stored |-> {"k1"},
              vals |-> {[type |-> "string", val |-> "s"]}, idle |-> {0},
              tokens |-> {NoToken, 1}, types |-> {"string", "bool"},
              options |-> {NoOption}, times |-> {1}, earlier |-> {MaxTime + 1}])

\* one request, handled sequentially, that merges an earlier session which
\* stored one of the two keys the handler uses
InitMerge ==
    InitWith([requests |-> 1, tasks |-> {"t1"}, keys |-> Keys, stored |-> {"k1"},
              vals |-> Vals, idle |-> {0},
              tokens |-> {NoToken, 1}, types |-> {"string"},
              options |-> {NoOption}, times |-> {MaxTime + 1}, earlier |-> {MaxTime + 1}])

\* one request, handled sequentially, on a new session, that stores values of
\* every type the typed Get wrappers know
InitGet ==
    InitWith([requests |-> 1, tasks |-> {"t1"}, keys |-> Keys, stored |-> {},
              vals |-> TypedVals, idle |-> {0},
              tokens |-> {NoToken}, types |-> Types,
              options |-> {NoOption}, times |-> {1}, earlier |-> {1}])

\* two requests in turn, with no earlier session: the handler of each puts
\* values and commits, and the second may come with the token of the first
InitPut ==
    InitWith([requests |-> 2, tasks |-> {"t1"}, keys |-> Keys, stored |-> {},
              vals |-> Vals, idle |-> IdleTimeouts,
              tokens |-> StoreKeys, types |-> Types,
              options |-> {NoOption}, times |-> {1}, earlier |-> {1}])

\* one request, handled sequentially, that may come with the token of an
\* earlier session which stored k1, and whose handler puts k2
InitDestroy ==
    InitWith([requests |-> 1, tasks |-> {"t1"}, keys |-> {"k2"}, stored |-> {"k1"},
              vals |-> Vals, idle |-> IdleTimeouts,
              tokens |-> StoreKeys, types |-> Types,
              options |-> {NoOption}, times |-> {1}, earlier |-> Times])

----------------------------------------------------------------------------
(* Load *)

\* mutation of LoadedData: the idle timeout does not mark the loaded record
LoadedDataUnmodified(token) ==
    [deadline |-> DecodeDeadline(store[token].b),
     status |-> Unmodified,
     token |-> token,
     values |-> DecodeValues(store[token].b)]

LoadedData(token) ==
    [deadline |-> DecodeDeadline(store[token].b),
     status |-> IF IdleTimeout > 0 THEN Modified ELSE Unmodified,
     token |-> token,
     values |-> DecodeValues(store[token].b)]

\* mutation of Fresh: the options are not applied to a fresh record
FreshIgnoresOption(option) == newSessionData(Lifetime)

\* a fresh record attached to the scope
Fresh(option) == ApplyOption(newSessionData(Lifetime), option)

\* the arguments of a Load
LoadArg(token, option) == [kind |-> "load", token |-> token, option |-> option]

\* mutation of Load: the options are applied to the record the scope already carries
LoadAppliesOptions(t, token, option) ==
    /\ ret = NoRet
    /\ t \in env.tasks
    /\ token \in env.tokens
    /\ option \in env.options
    /\ task[t] = Idle
    /\ IF sd # NoData
       THEN /\ ret' = ResultErr(t, "Load", LoadArg(token, option), NoErr, <<>>)
            /\ sd' = ApplyOption(sd, option)
            /\ UNCHANGED <<hist, nReq>>
       ELSE /\ nReq < env.requests
            /\ IF token = NoToken
               THEN /\ sd' = Fresh(option)
                    /\ ret' = ResultErr(t, "Load", LoadArg(token, option), NoErr, <<>>)
                    /\ nReq' = nReq + 1
               ELSE \E findOk, decodeOk \in BOOLEAN :
                    IF ~findOk
                    THEN /\ ret' = ResultErr(t, "Load", LoadArg(token, option), ErrStore, <<"Find">>)
                         /\ UNCHANGED <<sd, nReq>>
                    ELSE IF ~StoreFound(token)
                    THEN /\ sd' = Fresh(option)
                         /\ ret' = ResultErr(t, "Load", LoadArg(token, option), NoErr, <<"Find">>)
                         /\ nReq' = nReq + 1
                    ELSE IF ~decodeOk
                    THEN /\ ret' = ResultErr(t, "Load", LoadArg(token, option), ErrCodec, <<"Find", "Decode">>)
                         /\ UNCHANGED <<sd, nReq>>
                    ELSE /\ sd' = LoadedData(token)
                         /\ ret' = ResultErr(t, "Load", LoadArg(token, option), NoErr, <<"Find", "Decode">>)
                         /\ nReq' = nReq + 1
            /\ hist' = [NoHist EXCEPT !.loaded =
                            IF sd' # NoData /\ sd'.token # NoToken THEN sd' ELSE NoData]
    /\ UNCHANGED <<mu, store, now, IdleTimeout, Lifetime, task, nTok, env>>

\* mutation of Load: a fresh record is attached when the Store find fails
LoadAttachesOnError(t, token, option) ==
    /\ ret = NoRet
    /\ t \in env.tasks
    /\ token \in env.tokens
    /\ option \in env.options
    /\ task[t] = Idle
    /\ IF sd # NoData
       THEN /\ ret' = ResultErr(t, "Load", LoadArg(token, option), NoErr, <<>>)
            /\ UNCHANGED <<sd, hist, nReq>>
       ELSE /\ nReq < env.requests
            /\ IF token = NoToken
               THEN /\ sd' = Fresh(option)
                    /\ ret' = ResultErr(t, "Load", LoadArg(token, option), NoErr, <<>>)
                    /\ nReq' = nReq + 1
               ELSE \E findOk, decodeOk \in BOOLEAN :
                    IF ~findOk
                    THEN /\ ret' = ResultErr(t, "Load", LoadArg(token, option), ErrStore, <<"Find">>)
                         /\ sd' = Fresh(option)
                         /\ nReq' = nReq + 1
                    ELSE IF ~StoreFound(token)
                    THEN /\ sd' = Fresh(option)
                         /\ ret' = ResultErr(t, "Load", LoadArg(token, option), NoErr, <<"Find">>)
                         /\ nReq' = nReq + 1
                    ELSE IF ~decodeOk
                    THEN /\ ret' = ResultErr(t, "Load", LoadArg(token, option), ErrCodec, <<"Find", "Decode">>)
                         /\ UNCHANGED <<sd, nReq>>
                    ELSE /\ sd' = LoadedData(token)
                         /\ ret' = ResultErr(t, "Load", LoadArg(token, option), NoErr, <<"Find", "Decode">>)
                         /\ nReq' = nReq + 1
            /\ hist' = [NoHist EXCEPT !.loaded =
                            IF sd' # NoData /\ sd'.token # NoToken THEN sd' ELSE NoData]
    /\ UNCHANGED <<mu, store, now, IdleTimeout, Lifetime, task, nTok, env>>

Load(t, token, option) ==
    /\ ret = NoRet
    /\ t \in env.tasks
    /\ token \in env.tokens
    /\ option \in env.options
    /\ task[t] = Idle
    /\ IF sd # NoData
       THEN /\ ret' = ResultErr(t, "Load", LoadArg(token, option), NoErr, <<>>)
            /\ UNCHANGED <<sd, hist, nReq>>
       ELSE /\ nReq < env.requests
            /\ IF token = NoToken
               THEN /\ sd' = Fresh(option)
                    /\ ret' = ResultErr(t, "Load", LoadArg(token, option), NoErr, <<>>)
                    /\ nReq' = nReq + 1
               ELSE \E findOk, decodeOk \in BOOLEAN :
                    IF ~findOk
                    THEN /\ ret' = ResultErr(t, "Load", LoadArg(token, option), ErrStore, <<"Find">>)
                         /\ UNCHANGED <<sd, nReq>>
                    ELSE IF ~StoreFound(token)
                    THEN /\ sd' = Fresh(option)
                         /\ ret' = ResultErr(t, "Load", LoadArg(token, option), NoErr, <<"Find">>)
                         /\ nReq' = nReq + 1
                    ELSE IF ~decodeOk
                    THEN /\ ret' = ResultErr(t, "Load", LoadArg(token, option), ErrCodec, <<"Find", "Decode">>)
                         /\ UNCHANGED <<sd, nReq>>
                    ELSE /\ sd' = LoadedData(token)
                         /\ ret' = ResultErr(t, "Load", LoadArg(token, option), NoErr, <<"Find", "Decode">>)
                         /\ nReq' = nReq + 1
            /\ hist' = [NoHist EXCEPT !.loaded =
                            IF sd' # NoData /\ sd'.token # NoToken THEN sd' ELSE NoData]
    /\ UNCHANGED <<mu, store, now, IdleTimeout, Lifetime, task, nTok, env>>

\* the request ends: the next request starts from a scope with no record
EndRequest ==
    /\ ret = NoRet
    /\ sd # NoData
    /\ \A u \in Tasks : task[u] = Idle
    /\ sd' = NoData
    /\ hist' = NoHist
    /\ UNCHANGED <<mu, store, now, IdleTimeout, Lifetime, task, ret, nTok, env, nReq>>

Tick ==
    /\ ret = NoRet
    /\ now < MaxTime
    /\ now' = now + 1
    /\ store' = [k \in StoreKeys |->
                    IF store[k] # NoRow /\ store[k].expiry <= now + 1 THEN NoRow ELSE store[k]]
    /\ UNCHANGED <<sd, mu, IdleTimeout, Lifetime, task, ret, nTok, hist, env, nReq>>

----------------------------------------------------------------------------
(* Accessors: the lock is held for the in-memory operation only *)

Expire(t, expiry) ==
    /\ Ready(t)
    /\ expiry \in env.times
    /\ sd' = [sd EXCEPT !.deadline = expiry, !.status = Modified]
    /\ ret' = ResultErr(t, "Expire", expiry, NoErr, <<>>)
    /\ UNCHANGED <<mu, store, now, IdleTimeout, Lifetime, task, nTok, hist, env, nReq>>

PutValue(values, key, val) ==
    [k \in DOMAIN values \cup {key} |-> IF k = key THEN val ELSE values[k]]

DeleteKey(values, key) == [k \in DOMAIN values \ {key} |-> values[k]]

Lookup(values, key) == IF key \in DOMAIN values THEN values[key] ELSE Nil

\* mutation of Put: a Put starts the lifetime anew
PutExtendsDeadline(t, key, val) ==
    /\ Ready(t)
    /\ key \in env.keys
    /\ val \in env.vals
    /\ sd' = [sd EXCEPT !.values = PutValue(sd.values, key, val), !.status = Modified,
                        !.deadline = now + Lifetime]
    /\ ret' = ResultErr(t, "Put", key, NoErr, <<>>)
    /\ UNCHANGED <<mu, store, now, IdleTimeout, Lifetime, task, nTok, hist, env, nReq>>

Put(t, key, val) ==
    /\ Ready(t)
    /\ key \in env.keys
    /\ val \in env.vals
    /\ sd' = [sd EXCEPT !.values = PutValue(sd.values, key, val), !.status = Modified]
    /\ ret' = ResultErr(t, "Put", key, NoErr, <<>>)
    /\ UNCHANGED <<mu, store, now, IdleTimeout, Lifetime, task, nTok, hist, env, nReq>>

\* mutation of Get: reading a key marks the record
GetTouches(t, key) ==
    /\ Ready(t)
    /\ key \in env.keys
    /\ sd' = [sd EXCEPT !.status = Modified]
    /\ ret' = ResultVal(t, "Get", key, Lookup(sd.values, key))
    /\ UNCHANGED <<mu, store, now, IdleTimeout, Lifetime, task, nTok, hist, env, nReq>>

Get(t, key) ==
    /\ Ready(t)
    /\ key \in env.keys
    /\ ret' = ResultVal(t, "Get", key, Lookup(sd.values, key))
    /\ UNCHANGED <<sd, mu, store, now, IdleTimeout, Lifetime, task, nTok, hist, env, nReq>>

\* the zero value of a type
Zero(type) == [type |-> type, val |-> "zero"]

\* mutation of TypeAssert: a value of another type is returned as it is
TypeAssertAny(val, type) == IF val # Nil THEN val ELSE Zero(type)

\* str, ok := val.(string); if !ok { return "" }; return str
TypeAssert(val, type) == IF val.type = type THEN val ELSE Zero(type)

\* GetString, GetBool, GetInt, GetInt64, GetInt32, GetFloat, GetBytes, GetTime
GetTyped(t, key, type) ==
    /\ Ready(t)
    /\ key \in env.keys
    /\ type \in env.types
    /\ ret' = ResultVal(t, "Get_" \o type, key, TypeAssert(Lookup(sd.values, key), type))
    /\ UNCHANGED <<sd, mu, store, now, IdleTimeout, Lifetime, task, nTok, hist, env, nReq>>

\* mutation of Pop: the record is marked also when the key is absent
PopMarksAbsent(t, key) ==
    /\ Ready(t)
    /\ key \in env.keys
    /\ IF key \notin DOMAIN sd.values
       THEN /\ ret' = ResultVal(t, "Pop", key, Nil)
            /\ sd' = [sd EXCEPT !.status = Modified]
       ELSE /\ sd' = [sd EXCEPT !.values = DeleteKey(sd.values, key), !.status = Modified]
            /\ ret' = ResultVal(t, "Pop", key, sd.values[key])
    /\ UNCHANGED <<mu, store, now, IdleTimeout, Lifetime, task, nTok, hist, env, nReq>>

Pop(t, key) ==
    /\ Ready(t)
    /\ key \in env.keys
    /\ IF key \notin DOMAIN sd.values
       THEN /\ ret' = ResultVal(t, "Pop", key, Nil)
            /\ UNCHANGED sd
       ELSE /\ sd' = [sd EXCEPT !.values = DeleteKey(sd.values, key), !.status = Modified]
            /\ ret' = ResultVal(t, "Pop", key, sd.values[key])
    /\ UNCHANGED <<mu, store, now, IdleTimeout, Lifetime, task, nTok, hist, env, nReq>>

\* the types of the typed Pop wrappers
PopTypes == {"string", "bool", "int", "float64", "bytes", "time"}

\* the key a typed Pop wrapper was called with and what Pop returned to it
PopArg(key, val) == [key |-> key, popped |-> val]

\* mutation of PopTyped: a value of another type stays in the record
PopTypedKeepsOther(t, key, type) ==
    /\ Ready(t)
    /\ key \in env.keys
    /\ type \in env.types \cap PopTypes
    /\ IF key \notin DOMAIN sd.values
       THEN /\ ret' = ResultVal(t, "Pop_" \o type, PopArg(key, Nil), TypeAssert(Nil, type))
            /\ UNCHANGED sd
       ELSE /\ sd' = IF sd.values[key].type = type
                     THEN [sd EXCEPT !.values = DeleteKey(sd.values, key), !.status = Modified]
                     ELSE sd
            /\ ret' = ResultVal(t, "Pop_" \o type, PopArg(key, sd.values[key]),
                                TypeAssert(sd.values[key], type))
    /\ UNCHANGED <<mu, store, now, IdleTimeout, Lifetime, task, nTok, hist, env, nReq>>

\* PopString, PopBool, PopInt, PopFloat, PopBytes, PopTime: val := s.Pop(ctx, key),
\* then the type assertion
PopTyped(t, key, type) ==
    /\ Ready(t)
    /\ key \in env.keys
    /\ type \in env.types \cap PopTypes
    /\ IF key \notin DOMAIN sd.values
       THEN /\ ret' = ResultVal(t, "Pop_" \o type, PopArg(key, Nil), TypeAssert(Nil, type))
            /\ UNCHANGED sd
       ELSE /\ sd' = [sd EXCEPT !.values = DeleteKey(sd.values, key), !.status = Modified]
            /\ ret' = ResultVal(t, "Pop_" \o type, PopArg(key, sd.values[key]),
                                TypeAssert(sd.values[key], type))
    /\ UNCHANGED <<mu, store, now, IdleTimeout, Lifetime, task, nTok, hist, env, nReq>>

\* mutation of Remove: the key is deleted without marking the record
RemoveKeepsStatus(t, key) ==
    /\ Ready(t)
    /\ key \in env.keys
    /\ IF key \notin DOMAIN sd.values
       THEN UNCHANGED sd
       ELSE sd' = [sd EXCEPT !.values = DeleteKey(sd.values, key)]
    /\ ret' = ResultErr(t, "Remove", key, NoErr, <<>>)
    /\ UNCHANGED <<mu, store, now, IdleTimeout, Lifetime, task, nTok, hist, env, nReq>>

Remove(t, key) ==
    /\ Ready(t)
    /\ key \in env.keys
    /\ IF key \notin DOMAIN sd.values
       THEN UNCHANGED sd
       ELSE sd' = [sd EXCEPT !.values = DeleteKey(sd.values, key), !.status = Modified]
    /\ ret' = ResultErr(t, "Remove", key, NoErr, <<>>)
    /\ UNCHANGED <<mu, store, now, IdleTimeout, Lifetime, task, nTok, hist, env, nReq>>

Clear(t) ==
    /\ Ready(t)
    /\ IF DOMAIN sd.values = {}
       THEN UNCHANGED sd
       ELSE sd' = [sd EXCEPT !.values = EmptyValues, !.status = Modified]
    /\ ret' = ResultErr(t, "Clear", NoArg, NoErr, <<>>)
    /\ UNCHANGED <<mu, store, now, IdleTimeout, Lifetime, task, nTok, hist, env, nReq>>

Exists(t, key) ==
    /\ Ready(t)
    /\ key \in env.keys
    /\ ret' = ResultVal(t, "Exists", key, key \in DOMAIN sd.values)
    /\ UNCHANGED <<sd, mu, store, now, IdleTimeout, Lifetime, task, nTok, hist, env, nReq>>

KeyOrder == <<"k1", "k2">>

\* the keys of the mapping, sorted alphabetically
SortedKeys(values) == SelectSeq(KeyOrder, LAMBDA k : k \in DOMAIN values)

KeysOp(t) ==
    /\ Ready(t)
    /\ ret' = ResultVal(t, "Keys", NoArg, SortedKeys(sd.values))
    /\ UNCHANGED <<sd, mu, store, now, IdleTimeout, Lifetime, task, nTok, hist, env, nReq>>

Status(t) ==
    /\ Ready(t)
    /\ ret' = ResultVal(t, "Status", NoArg, sd.status)
    /\ UNCHANGED <<sd, mu, store, now, IdleTimeout, Lifetime, task, nTok, hist, env, nReq>>

Deadline(t) ==
    /\ Ready(t)
    /\ ret' = ResultVal(t, "Deadline", NoArg, sd.deadline)
    /\ UNCHANGED <<sd, mu, store, now, IdleTimeout, Lifetime, task, nTok, hist, env, nReq>>

Token(t) ==
    /\ Ready(t)
    /\ ret' = ResultVal(t, "Token", NoArg, sd.token)
    /\ UNCHANGED <<sd, mu, store, now, IdleTimeout, Lifetime, task, nTok, hist, env, nReq>>

----------------------------------------------------------------------------
(* Save and Commit *)

Begin(t, op, pc, arg) ==
    [task EXCEPT ![t] = [op |-> op, pc |-> pc, arg |-> arg, calls |-> <<>>]]

Goto(t, pc, call) ==
    [task EXCEPT ![t].pc = pc, ![t].calls = task[t].calls \o call]

Finish(t) == [task EXCEPT ![t] = Idle]

\* mutation of Save: a Destroyed record is committed like a Modified one
SaveCommitsDestroyed(t) ==
    /\ Ready(t)
    /\ CASE sd.status \in {Modified, Destroyed} ->
              /\ task' = Begin(t, "Save", "Save_Commit", NoArg)
              /\ UNCHANGED ret
         [] OTHER ->
              /\ ret' = ResultErr(t, "Save", NoArg, ErrUnmodified, <<>>)
              /\ UNCHANGED task
    /\ UNCHANGED <<sd, mu, store, now, IdleTimeout, Lifetime, nTok, hist, env, nReq>>

\* mutation of Save: the lock Status took is still held when Commit is called
SaveHoldsLock(t) ==
    /\ Ready(t)
    /\ CASE sd.status = Modified ->
              /\ task' = Begin(t, "Save", "Save_Commit", NoArg)
              /\ mu' = t
              /\ UNCHANGED ret
         [] sd.status = Destroyed ->
              /\ ret' = ResultErr(t, "Save", NoArg, NoErr, <<>>)
              /\ UNCHANGED <<task, mu>>
         [] OTHER ->
              /\ ret' = ResultErr(t, "Save", NoArg, ErrUnmodified, <<>>)
              /\ UNCHANGED <<task, mu>>
    /\ UNCHANGED <<sd, store, now, IdleTimeout, Lifetime, nTok, hist, env, nReq>>

\* switch s.Status(ctx): Status takes and releases the lock before Commit is called
Save(t) ==
    /\ Ready(t)
    /\ CASE sd.status = Modified ->
              /\ task' = Begin(t, "Save", "Save_Commit", NoArg)
              /\ UNCHANGED ret
         [] sd.status = Destroyed ->
              /\ ret' = ResultErr(t, "Save", NoArg, NoErr, <<>>)
              /\ UNCHANGED task
         [] OTHER ->
              /\ ret' = ResultErr(t, "Save", NoArg, ErrUnmodified, <<>>)
              /\ UNCHANGED task
    /\ UNCHANGED <<sd, mu, store, now, IdleTimeout, Lifetime, nTok, hist, env, nReq>>

\* mutation of CommitLock: a token is generated whether or not the record has one
CommitLockRegenerates(t) ==
    /\ ret = NoRet
    /\ t \in env.tasks
    /\ sd # NoData
    /\ \/ task[t] = Idle
       \/ task[t].pc = "Save_Commit"
    /\ mu = Free
    /\ mu' = t
    /\ task' = Begin(t, IF task[t] = Idle THEN "Commit" ELSE "Save", "Commit_generate",
                     [kind |-> "commit", prior |-> hist.last, token |-> sd.token])
    /\ UNCHANGED <<sd, store, now, IdleTimeout, Lifetime, ret, nTok, hist, env, nReq>>

\* mutation of CommitLock: Commit does not wait for the lock
CommitLockNoMutex(t) ==
    /\ ret = NoRet
    /\ t \in env.tasks
    /\ sd # NoData
    /\ \/ task[t] = Idle
       \/ task[t].pc = "Save_Commit"
    /\ mu' = t
    /\ task' = Begin(t, IF task[t] = Idle THEN "Commit" ELSE "Save",
                     IF sd.token = NoToken THEN "Commit_generate" ELSE "Commit_encode",
                     [kind |-> "commit", prior |-> hist.last, token |-> sd.token])
    /\ UNCHANGED <<sd, store, now, IdleTimeout, Lifetime, ret, nTok, hist, env, nReq>>

\* sd.mu.Lock(); if sd.token == ""
\* (prior notes whose Commit succeeded last before this one took the lock,
\* token the token the record had then)
CommitLock(t) ==
    /\ ret = NoRet
    /\ t \in env.tasks
    /\ sd # NoData
    /\ \/ task[t] = Idle
       \/ task[t].pc = "Save_Commit"
    /\ mu = Free
    /\ mu' = t
    /\ task' = Begin(t, IF task[t] = Idle THEN "Commit" ELSE "Save",
                     IF sd.token = NoToken THEN "Commit_generate" ELSE "Commit_encode",
                     [kind |-> "commit", prior |-> hist.last, token |-> sd.token])
    /\ UNCHANGED <<sd, store, now, IdleTimeout, Lifetime, ret, nTok, hist, env, nReq>>

\* mutation of CommitGenerate: the generated token is not kept in the record
CommitGenerateDiscards(t) ==
    /\ ret = NoRet
    /\ task[t].pc = "Commit_generate"
    /\ \E randOk \in BOOLEAN :
          IF randOk /\ nTok < MaxTokens
          THEN /\ nTok' = nTok + 1
               /\ hist' = [hist EXCEPT !.generated = @ \cup {nTok + 1}]
               /\ task' = Goto(t, "Commit_encode", <<>>)
               /\ UNCHANGED <<sd, mu, ret>>
          ELSE /\ ret' = ResultErr(t, task[t].op, task[t].arg, ErrRand, task[t].calls)
               /\ mu' = Free
               /\ task' = Finish(t)
               /\ UNCHANGED <<sd, nTok, hist, env, nReq>>
    /\ UNCHANGED <<store, now, IdleTimeout, Lifetime, env, nReq>>

\* sd.token, err = generateToken()
CommitGenerate(t) ==
    /\ ret = NoRet
    /\ task[t].pc = "Commit_generate"
    /\ \E randOk \in BOOLEAN :
          IF randOk /\ nTok < MaxTokens
          THEN /\ sd' = [sd EXCEPT !.token = nTok + 1]
               /\ nTok' = nTok + 1
               /\ hist' = [hist EXCEPT !.generated = @ \cup {nTok + 1}]
               /\ task' = Goto(t, "Commit_encode", <<>>)
               /\ UNCHANGED <<mu, ret>>
          ELSE /\ ret' = ResultErr(t, task[t].op, task[t].arg, ErrRand, task[t].calls)
               /\ mu' = Free
               /\ task' = Finish(t)
               /\ UNCHANGED <<sd, nTok, hist, env, nReq>>
    /\ UNCHANGED <<store, now, IdleTimeout, Lifetime, env, nReq>>

\* mutation of CommitExpiry: the idle timeout is ignored
CommitExpiryNoIdle(deadline) == deadline

\* mutation of CommitExpiry: under an idle timeout the expiry is now + idle timeout
CommitExpiryIdleOnly(deadline) == IF IdleTimeout > 0 THEN now + IdleTimeout ELSE deadline

\* expiry := sd.deadline; if s.IdleTimeout > 0 { ie := now + IdleTimeout; if ie.Before(expiry) ... }
CommitExpiry(deadline) ==
    IF IdleTimeout > 0
    THEN LET ie == now + IdleTimeout
         IN  IF ie < deadline THEN ie ELSE deadline
    ELSE deadline

\* mutation of CommitStore: a failed Commit takes the token off the record again
CommitStoreRollsBack(t) ==
    /\ ret = NoRet
    /\ task[t].pc = "Commit_encode"
    /\ \E encodeOk, commitOk \in BOOLEAN :
          LET b == Encode(sd.deadline, sd.values)
              expiry == CommitExpiry(sd.deadline)
          IN  IF ~encodeOk
              THEN /\ ret' = ResultErr(t, task[t].op, task[t].arg, ErrCodec, task[t].calls \o <<"Encode">>)
                   /\ sd' = [sd EXCEPT !.token = task[t].arg.token]
                   /\ UNCHANGED <<store, hist>>
              ELSE IF ~commitOk
              THEN /\ ret' = ResultErr(t, task[t].op, task[t].arg, ErrStore,
                                       task[t].calls \o <<"Encode", "Commit">>)
                   /\ sd' = [sd EXCEPT !.token = task[t].arg.token]
                   /\ UNCHANGED <<store, hist>>
              ELSE /\ store' = StoreCommit(sd.token, b, expiry)
                   /\ ret' = Result(t, task[t].op, task[t].arg, sd.token, expiry, NoErr, Nil,
                                    task[t].calls \o <<"Encode", "Commit">>)
                   /\ hist' = [hist EXCEPT !.upserted = @ \cup {sd.token},
                                           !.returned = @ \cup {sd.token},
                                           !.last = t]
                   /\ UNCHANGED sd
    /\ mu' = Free
    /\ task' = Finish(t)
    /\ UNCHANGED <<now, IdleTimeout, Lifetime, nTok, env, nReq>>

\* Codec.Encode, the expiry, doStoreCommit, return, sd.mu.Unlock()
\* mutation of CommitStore: a successful Commit marks the record Unmodified
CommitStoreMarksUnmodified(t) ==
    /\ ret = NoRet
    /\ task[t].pc = "Commit_encode"
    /\ \E encodeOk, commitOk \in BOOLEAN :
          LET b == Encode(sd.deadline, sd.values)
              expiry == CommitExpiry(sd.deadline)
          IN  IF ~encodeOk
              THEN /\ ret' = ResultErr(t, task[t].op, task[t].arg, ErrCodec, task[t].calls \o <<"Encode">>)
                   /\ UNCHANGED <<sd, store, hist>>
              ELSE IF ~commitOk
              THEN /\ ret' = ResultErr(t, task[t].op, task[t].arg, ErrStore,
                                       task[t].calls \o <<"Encode", "Commit">>)
                   /\ UNCHANGED <<sd, store, hist>>
              ELSE /\ store' = StoreCommit(sd.token, b, expiry)
                   /\ sd' = [sd EXCEPT !.status = Unmodified]
                   /\ ret' = Result(t, task[t].op, task[t].arg, sd.token, expiry, NoErr, Nil,
                                    task[t].calls \o <<"Encode", "Commit">>)
                   /\ hist' = [hist EXCEPT !.upserted = @ \cup {sd.token},
                                           !.returned = @ \cup {sd.token},
                                           !.last = t]
    /\ mu' = Free
    /\ task' = Finish(t)
    /\ UNCHANGED <<now, IdleTimeout, Lifetime, nTok, env, nReq>>

CommitStore(t) ==
    /\ ret = NoRet
    /\ task[t].pc = "Commit_encode"
    /\ \E encodeOk, commitOk \in BOOLEAN :
          LET b == Encode(sd.deadline, sd.values)
              expiry == CommitExpiry(sd.deadline)
          IN  IF ~encodeOk
              THEN /\ ret' = ResultErr(t, task[t].op, task[t].arg, ErrCodec, task[t].calls \o <<"Encode">>)
                   /\ UNCHANGED <<store, hist>>
              ELSE IF ~commitOk
              THEN /\ ret' = ResultErr(t, task[t].op, task[t].arg, ErrStore,
                                       task[t].calls \o <<"Encode", "Commit">>)
                   /\ UNCHANGED <<store, hist>>
              ELSE /\ store' = StoreCommit(sd.token, b, expiry)
                   /\ ret' = Result(t, task[t].op, task[t].arg, sd.token, expiry, NoErr, Nil,
                                    task[t].calls \o <<"Encode", "Commit">>)
                   /\ hist' = [hist EXCEPT !.upserted = @ \cup {sd.token},
                                           !.returned = @ \cup {sd.token},
                                           !.last = t]
    /\ mu' = Free
    /\ task' = Finish(t)
    /\ UNCHANGED <<sd, now, IdleTimeout, Lifetime, nTok, env, nReq>>

----------------------------------------------------------------------------
(* Destroy *)

DestroyLock(t, option) ==
    /\ Ready(t)
    /\ option \in env.options
    /\ mu' = t
    /\ task' = Begin(t, "Destroy", "Destroy_delete", option)
    /\ UNCHANGED <<sd, store, now, IdleTimeout, Lifetime, ret, nTok, hist, env, nReq>>

\* mutation of DestroyedData: the options are not applied
DestroyedDataIgnoresOption(s, option) ==
    [s EXCEPT !.status = Destroyed, !.token = NoToken, !.deadline = now + Lifetime,
              !.values = EmptyValues]

\* mutation of DestroyedData: the reset returns the status to Unmodified
DestroyedDataUnmodified(s, option) ==
    [ApplyOption([s EXCEPT !.status = Unmodified, !.token = NoToken,
                           !.deadline = now + Lifetime], option)
        EXCEPT !.values = EmptyValues]

\* mutation of DestroyedData: the values are kept
DestroyedDataKeepsValues(s, option) ==
    ApplyOption([s EXCEPT !.status = Destroyed, !.token = NoToken,
                          !.deadline = now + Lifetime], option)

\* the record after a successful Destroy
DestroyedData(s, option) ==
    [ApplyOption([s EXCEPT !.status = Destroyed, !.token = NoToken,
                           !.deadline = now + Lifetime], option)
        EXCEPT !.values = EmptyValues]

\* mutation of DestroyDelete: the reset is applied before the delete's error is checked
DestroyDeleteResetsFirst(t) ==
    /\ ret = NoRet
    /\ task[t].pc = "Destroy_delete"
    /\ \E deleteOk \in BOOLEAN :
          IF ~deleteOk
          THEN /\ ret' = ResultErr(t, "Destroy", task[t].arg, ErrStore, <<"Delete">>)
               /\ sd' = DestroyedData(sd, task[t].arg)
               /\ mu' = Free
               /\ task' = Finish(t)
               /\ UNCHANGED store
          ELSE /\ store' = StoreDelete(sd.token)
               /\ task' = Goto(t, "Destroy_reset", <<"Delete">>)
               /\ UNCHANGED <<sd, mu, ret>>
    /\ UNCHANGED <<now, IdleTimeout, Lifetime, nTok, hist, env, nReq>>

\* mutation of DestroyDelete: the lock is released when the Store call returns
DestroyDeleteUnlocks(t) ==
    /\ ret = NoRet
    /\ task[t].pc = "Destroy_delete"
    /\ \E deleteOk \in BOOLEAN :
          IF ~deleteOk
          THEN /\ ret' = ResultErr(t, "Destroy", task[t].arg, ErrStore, <<"Delete">>)
               /\ task' = Finish(t)
               /\ UNCHANGED store
          ELSE /\ store' = StoreDelete(sd.token)
               /\ task' = Goto(t, "Destroy_reset", <<"Delete">>)
               /\ UNCHANGED ret
    /\ mu' = Free
    /\ UNCHANGED <<sd, now, IdleTimeout, Lifetime, nTok, hist, env, nReq>>

\* err := s.doStoreDelete(ctx, sd.token); if err != nil { return err }
DestroyDelete(t) ==
    /\ ret = NoRet
    /\ task[t].pc = "Destroy_delete"
    /\ \E deleteOk \in BOOLEAN :
          IF ~deleteOk
          THEN /\ ret' = ResultErr(t, "Destroy", task[t].arg, ErrStore, <<"Delete">>)
               /\ mu' = Free
               /\ task' = Finish(t)
               /\ UNCHANGED store
          ELSE /\ store' = StoreDelete(sd.token)
               /\ task' = Goto(t, "Destroy_reset", <<"Delete">>)
               /\ UNCHANGED <<mu, ret>>
    /\ UNCHANGED <<sd, now, IdleTimeout, Lifetime, nTok, hist, env, nReq>>

\* sd.status = Destroyed and the reset, return nil, sd.mu.Unlock()
DestroyReset(t) ==
    /\ ret = NoRet
    /\ task[t].pc = "Destroy_reset"
    /\ sd' = DestroyedData(sd, task[t].arg)
    /\ hist' = [NoHist EXCEPT !.prev = sd.token]
    /\ ret' = ResultErr(t, "Destroy", task[t].arg, NoErr, task[t].calls)
    /\ mu' = Free
    /\ task' = Finish(t)
    /\ UNCHANGED <<store, now, IdleTimeout, Lifetime, nTok, env, nReq>>

----------------------------------------------------------------------------
(* RenewToken *)

RenewLock(t, option) ==
    /\ Ready(t)
    /\ option \in env.options
    /\ mu' = t
    /\ task' = Begin(t, "RenewToken", "Renew_delete", option)
    /\ UNCHANGED <<sd, store, now, IdleTimeout, Lifetime, ret, nTok, hist, env, nReq>>

\* mutation of RenewedData: the renewed record is marked Unmodified
RenewedDataUnmodified(s, newToken, option) ==
    [ApplyOption([s EXCEPT !.token = newToken, !.deadline = now + Lifetime], option)
        EXCEPT !.status = Unmodified]

\* mutation of RenewedData: the record keeps its old token
RenewedDataKeepsToken(s, newToken, option) ==
    [ApplyOption([s EXCEPT !.deadline = now + Lifetime], option)
        EXCEPT !.status = Modified]

\* the record after a successful RenewToken
RenewedData(s, newToken, option) ==
    [ApplyOption([s EXCEPT !.token = newToken, !.deadline = now + Lifetime], option)
        EXCEPT !.status = Modified]

\* mutation of RenewDelete: the new token is generated and assigned before the delete
RenewDeleteGeneratesFirst(t) ==
    /\ ret = NoRet
    /\ task[t].pc = "Renew_delete"
    /\ \E deleteOk, randOk \in BOOLEAN :
          IF ~(randOk /\ nTok < MaxTokens)
          THEN /\ ret' = ResultErr(t, "RenewToken", task[t].arg, ErrRand, <<>>)
               /\ mu' = Free
               /\ task' = Finish(t)
               /\ UNCHANGED <<sd, store, nTok>>
          ELSE IF ~deleteOk
          THEN /\ sd' = [sd EXCEPT !.token = nTok + 1]
               /\ nTok' = nTok + 1
               /\ ret' = ResultErr(t, "RenewToken", task[t].arg, ErrStore, <<"Delete">>)
               /\ mu' = Free
               /\ task' = Finish(t)
               /\ UNCHANGED store
          ELSE /\ store' = StoreDelete(sd.token)
               /\ task' = Goto(t, "Renew_generate", <<"Delete">>)
               /\ UNCHANGED <<sd, mu, ret, nTok>>
    /\ UNCHANGED <<now, IdleTimeout, Lifetime, hist, env, nReq>>

\* err := s.doStoreDelete(ctx, sd.token); if err != nil { return err }
RenewDelete(t) ==
    /\ ret = NoRet
    /\ task[t].pc = "Renew_delete"
    /\ \E deleteOk \in BOOLEAN :
          IF ~deleteOk
          THEN /\ ret' = ResultErr(t, "RenewToken", task[t].arg, ErrStore, <<"Delete">>)
               /\ mu' = Free
               /\ task' = Finish(t)
               /\ UNCHANGED store
          ELSE /\ store' = StoreDelete(sd.token)
               /\ task' = Goto(t, "Renew_generate", <<"Delete">>)
               /\ UNCHANGED <<mu, ret>>
    /\ UNCHANGED <<sd, now, IdleTimeout, Lifetime, nTok, hist, env, nReq>>

\* newToken, err := generateToken(); the in-memory update, return, sd.mu.Unlock()
RenewGenerate(t) ==
    /\ ret = NoRet
    /\ task[t].pc = "Renew_generate"
    /\ \E randOk \in BOOLEAN :
          IF ~(randOk /\ nTok < MaxTokens)
          THEN /\ ret' = ResultErr(t, "RenewToken", task[t].arg, ErrRand, task[t].calls)
               /\ UNCHANGED <<sd, nTok, hist>>
          ELSE /\ sd' = RenewedData(sd, nTok + 1, task[t].arg)
               /\ nTok' = nTok + 1
               /\ hist' = [NoHist EXCEPT !.last = hist.last, !.prev = sd.token]
               /\ ret' = ResultErr(t, "RenewToken", task[t].arg, NoErr, task[t].calls)
    /\ mu' = Free
    /\ task' = Finish(t)
    /\ UNCHANGED <<store, now, IdleTimeout, Lifetime, env, nReq>>

----------------------------------------------------------------------------
(* MergeSession *)

\* doStoreFind and Codec.Decode, before the lock is taken
MergeFind(t, token) ==
    /\ ret = NoRet
    /\ t \in env.tasks
    /\ token \in env.tokens
    /\ task[t] = Idle
    /\ sd # NoData
    /\ \E findOk, decodeOk \in BOOLEAN :
          IF ~findOk
          THEN /\ ret' = ResultErr(t, "MergeSession", token, ErrStore, <<"Find">>)
               /\ UNCHANGED task
          ELSE IF ~StoreFound(token)
          THEN /\ ret' = ResultErr(t, "MergeSession", token, NoErr, <<"Find">>)
               /\ UNCHANGED task
          ELSE IF ~decodeOk
          THEN /\ ret' = ResultErr(t, "MergeSession", token, ErrCodec, <<"Find", "Decode">>)
               /\ UNCHANGED task
          ELSE /\ task' = [task EXCEPT ![t] =
                             [op |-> "MergeSession", pc |-> "Merge_lock",
                              arg |-> [kind |-> "merge", token |-> token,
                                       deadline |-> DecodeDeadline(store[token].b),
                                       values |-> DecodeValues(store[token].b),
                                       was |-> NoData],
                              calls |-> <<"Find", "Decode">>]]
               /\ UNCHANGED ret
    /\ UNCHANGED <<sd, mu, store, now, IdleTimeout, Lifetime, nTok, hist, env, nReq>>

\* mutation of MergeValues: on a key present in both, the record's value is kept
MergeValuesCurrentWins(values, foreign) ==
    [k \in DOMAIN values \cup DOMAIN foreign |->
        IF k \in DOMAIN values THEN values[k] ELSE foreign[k]]

\* for k, v := range values { sd.values[k] = v }
MergeValues(values, foreign) ==
    [k \in DOMAIN values \cup DOMAIN foreign |->
        IF k \in DOMAIN foreign THEN foreign[k] ELSE values[k]]

\* mutation of MergedData: the record takes the foreign deadline
MergedDataTakesForeign(s, deadline, values) ==
    [s EXCEPT !.deadline = deadline,
              !.values = MergeValues(s.values, values),
              !.status = Modified]

\* the record after the in-memory part of a merge
MergedData(s, deadline, values) ==
    [s EXCEPT !.deadline = IF deadline > s.deadline THEN deadline ELSE s.deadline,
              !.values = MergeValues(s.values, values),
              !.status = Modified]

\* mutation of MergeLock: the tokens are not compared
MergeLockNoSameCheck(t) ==
    /\ ret = NoRet
    /\ task[t].pc = "Merge_lock"
    /\ mu = Free
    /\ sd' = MergedData(sd, task[t].arg.deadline, task[t].arg.values)
    /\ mu' = t
    /\ task' = [task EXCEPT ![t].pc = "Merge_delete", ![t].arg.was = sd]
    /\ UNCHANGED <<ret, store, now, IdleTimeout, Lifetime, nTok, hist, env, nReq>>

\* sd.mu.Lock(); same token: return; else merge in memory
\* (was notes the record as it was when the lock was taken)
MergeLock(t) ==
    /\ ret = NoRet
    /\ task[t].pc = "Merge_lock"
    /\ mu = Free
    /\ IF sd.token = task[t].arg.token
       THEN /\ ret' = ResultErr(t, "MergeSession", task[t].arg.token, NoErr, task[t].calls)
            /\ task' = Finish(t)
            /\ UNCHANGED <<sd, mu>>
       ELSE /\ sd' = MergedData(sd, task[t].arg.deadline, task[t].arg.values)
            /\ mu' = t
            /\ task' = [task EXCEPT ![t].pc = "Merge_delete", ![t].arg.was = sd]
            /\ UNCHANGED ret
    /\ UNCHANGED <<store, now, IdleTimeout, Lifetime, nTok, hist, env, nReq>>

\* return s.doStoreDelete(ctx, token); sd.mu.Unlock()
MergeDelete(t) ==
    /\ ret = NoRet
    /\ task[t].pc = "Merge_delete"
    /\ \E deleteOk \in BOOLEAN :
          IF ~deleteOk
          THEN /\ ret' = ResultErr(t, "MergeSession", task[t].arg.token, ErrStore, task[t].calls \o <<"Delete">>)
               /\ UNCHANGED store
          ELSE /\ store' = StoreDelete(task[t].arg.token)
               /\ ret' = ResultErr(t, "MergeSession", task[t].arg.token, NoErr, task[t].calls \o <<"Delete">>)
    /\ mu' = Free
    /\ task' = Finish(t)
    /\ UNCHANGED <<sd, now, IdleTimeout, Lifetime, nTok, hist, env, nReq>>

----------------------------------------------------------------------------
(* Iterate *)

\* the orders in which a range over a map with these keys may visit them
Orders(S) ==
    {order \in [1..Cardinality(S) -> S] :
        \A i, j \in 1..Cardinality(S) : i # j => order[i] # order[j]}

\* the transient record Iterate binds to the scope it passes to the callback
IterateData(token, b) ==
    [deadline |-> DecodeDeadline(b), status |-> Unmodified, token |-> token,
     values |-> DecodeValues(b)]

\* mutation of IterateLoop: an entry that fails is skipped and the iteration goes on
RECURSIVE IterateLoopBestEffort(_, _, _, _, _, _, _)
IterateLoopBestEffort(all, order, decodeOk, fnOk, i, called, calls) ==
    IF i > Len(order)
    THEN [err |-> NoErr, called |-> called, calls |-> calls]
    ELSE LET token == order[i]
         IN  IF ~decodeOk[token]
             THEN IterateLoopBestEffort(all, order, decodeOk, fnOk, i + 1, called,
                                        calls \o <<"Decode">>)
             ELSE IterateLoopBestEffort(all, order, decodeOk, fnOk, i + 1,
                                        Append(called, IterateData(token, all[token])),
                                        calls \o <<"Decode", "fn">>)

\* for token, b := range allSessions: decode, bind, call fn; return on the first error
\* (called lists the records the callback was invoked with, in order)
RECURSIVE IterateLoop(_, _, _, _, _, _, _)
IterateLoop(all, order, decodeOk, fnOk, i, called, calls) ==
    IF i > Len(order)
    THEN [err |-> NoErr, called |-> called, calls |-> calls]
    ELSE LET token == order[i]
         IN  IF ~decodeOk[token]
             THEN [err |-> ErrCodec, called |-> called, calls |-> calls \o <<"Decode">>]
             ELSE IF ~fnOk[token]
             THEN [err |-> ErrFn, called |-> Append(called, IterateData(token, all[token])),
                   calls |-> calls \o <<"Decode", "fn">>]
             ELSE IterateLoop(all, order, decodeOk, fnOk, i + 1,
                              Append(called, IterateData(token, all[token])),
                              calls \o <<"Decode", "fn">>)

\* the arguments and inputs of an Iterate: what All returned, the order of the
\* range over it, and which decodes and which calls of fn succeed
IterateArg(all, order, decodeOk, fnOk) ==
    [kind |-> "iterate", all |-> all, order |-> order, decodeOk |-> decodeOk, fnOk |-> fnOk]

\* Iterate reads shared state in doStoreAll only; the loop works on what All
\* returned and on records of its own
Iterate(t) ==
    /\ ret = NoRet
    /\ t \in env.tasks
    /\ task[t] = Idle
    /\ \E allOk \in BOOLEAN :
          IF ~allOk
          THEN ret' = Result(t, "Iterate", NoArg, NoToken, ZeroTime, ErrStore, <<>>, <<"All">>)
          ELSE \E order \in Orders(DOMAIN StoreAll) :
               \E decodeOk, fnOk \in [DOMAIN StoreAll -> BOOLEAN] :
                  LET r == IterateLoop(StoreAll, order, decodeOk, fnOk, 1, <<>>, <<"All">>)
                  IN  ret' = Result(t, "Iterate", IterateArg(StoreAll, order, decodeOk, fnOk),
                                    NoToken, ZeroTime, r.err, r.called, r.calls)
    /\ UNCHANGED <<sd, mu, store, now, IdleTimeout, Lifetime, task, nTok, hist, env, nReq>>

----------------------------------------------------------------------------
\* an operation's result is taken by its caller (Return) before the next step
Next ==
    \/ Return
    \/ Tick
    \/ EndRequest
    \/ \E t \in Tasks :
        \/ \E token \in Tokens \cup {NoToken}, option \in Options : Load(t, token, option)
        \/ \E expiry \in Times : Expire(t, expiry)
        \/ \E key \in Keys, val \in Vals : Put(t, key, val)
        \/ \E key \in Keys : Get(t, key)
        \/ \E key \in Keys, type \in Types : GetTyped(t, key, type)
        \/ \E key \in Keys : Pop(t, key)
        \/ \E key \in Keys : Remove(t, key)
        \/ \E key \in Keys : Exists(t, key)
        \/ Clear(t)
        \/ KeysOp(t)
        \/ Status(t)
        \/ Deadline(t)
        \/ Token(t)
        \/ Save(t)
        \/ CommitLock(t)
        \/ CommitGenerate(t)
        \/ CommitStore(t)
        \/ \E option \in Options : DestroyLock(t, option)
        \/ DestroyDelete(t)
        \/ DestroyReset(t)
        \/ \E option \in Options : RenewLock(t, option)
        \/ RenewDelete(t)
        \/ RenewGenerate(t)
        \/ \E token \in Tokens \cup {NoToken} : MergeFind(t, token)
        \/ MergeLock(t)
        \/ MergeDelete(t)
        \/ Iterate(t)

Spec == Init /\ [][Next]_vars

SpecConc == InitConc /\ [][Next]_vars

SpecMerge == InitMerge /\ [][Next]_vars

\* the handler of a new session puts, removes and reads values
NextGet ==
    \/ Return
    \/ \E t \in Tasks :
        \/ \E token \in Tokens \cup {NoToken}, option \in Options : Load(t, token, option)
        \/ \E key \in Keys, val \in TypedVals : Put(t, key, val)
        \/ \E key \in Keys : Remove(t, key)
        \/ \E key \in Keys : Get(t, key)
        \/ \E key \in Keys, type \in Types : GetTyped(t, key, type)

SpecGet == InitGet /\ [][NextGet]_vars

\* the handlers load, put values and commit
NextPut ==
    \/ Return
    \/ Tick
    \/ EndRequest
    \/ \E t \in Tasks :
        \/ \E token \in Tokens \cup {NoToken}, option \in Options : Load(t, token, option)
        \/ \E key \in Keys, val \in Vals : Put(t, key, val)
        \/ CommitLock(t)
        \/ CommitGenerate(t)
        \/ CommitStore(t)

SpecPut == InitPut /\ [][NextPut]_vars

\* the handler loads, reads, puts values, destroys and saves
NextDestroy ==
    \/ Return
    \/ Tick
    \/ \E t \in Tasks :
        \/ \E token \in Tokens \cup {NoToken}, option \in Options : Load(t, token, option)
        \/ \E key \in Keys, val \in Vals : Put(t, key, val)
        \/ \E key \in Keys : Get(t, key)
        \/ KeysOp(t)
        \/ Token(t)
        \/ Save(t)
        \/ CommitLock(t)
        \/ CommitGenerate(t)
        \/ CommitStore(t)
        \/ \E option \in Options : DestroyLock(t, option)
        \/ DestroyDelete(t)
        \/ DestroyReset(t)

SpecDestroy == InitDestroy /\ [][NextDestroy]_vars

\* the handler of a new session puts values of every type and takes them out
NextPop ==
    \/ Return
    \/ \E t \in Tasks :
        \/ \E token \in Tokens \cup {NoToken}, option \in Options : Load(t, token, option)
        \/ \E key \in Keys, val \in TypedVals : Put(t, key, val)
        \/ \E key \in Keys : Pop(t, key)
        \/ \E key \in Keys, type \in PopTypes : PopTyped(t, key, type)
        \/ \E key \in Keys : Remove(t, key)
        \/ Clear(t)

SpecPop == InitGet /\ [][NextPop]_vars

\* one request, handled sequentially, that may come with the token of an
\* earlier session
InitSave ==
    InitWith([requests |-> 1, tasks |-> {"t1"}, keys |-> {"k1"}, stored |-> {"k1"},
              vals |-> Vals, idle |-> IdleTimeouts,
              tokens |-> StoreKeys, types |-> Types,
              options |-> {NoOption}, times |-> {1}, earlier |-> Times])

\* a Put before the first successful Commit on the record
PutFirst(t, key, val) == hist.last = NoTask /\ Put(t, key, val)

\* the handler puts values, then saves or commits any number of times with
\* no mutation after the first successful Commit
NextSave ==
    \/ Return
    \/ Tick
    \/ \E t \in Tasks :
        \/ \E token \in Tokens \cup {NoToken}, option \in Options : Load(t, token, option)
        \/ \E key \in Keys, val \in Vals : PutFirst(t, key, val)
        \/ Save(t)
        \/ CommitLock(t)
        \/ CommitGenerate(t)
        \/ CommitStore(t)

SpecSave == InitSave /\ [][NextSave]_vars

\* the Commit that Save calls after Status returned Modified
CommitFromSave(t) == task[t].pc = "Save_Commit" /\ CommitLock(t)

\* the sub-tasks of one request put values, destroy the session and save;
\* Commit is called by Save only
NextRace ==
    \/ Return
    \/ \E t \in Tasks :
        \/ \E token \in Tokens \cup {NoToken}, option \in Options : Load(t, token, option)
        \/ \E key \in Keys, val \in Vals : Put(t, key, val)
        \/ Save(t)
        \/ CommitFromSave(t)
        \/ CommitGenerate(t)
        \/ CommitStore(t)
        \/ \E option \in Options : DestroyLock(t, option)
        \/ DestroyDelete(t)
        \/ DestroyReset(t)

SpecRace == InitConc /\ [][NextRace]_vars

\* the sub-tasks of one request call the operations that take the lock more
\* than once or hold it across Store and Codec calls, and typed wrappers
NextLive ==
    \/ Return
    \/ \E t \in Tasks :
        \/ \E token \in Tokens \cup {NoToken}, option \in Options : Load(t, token, option)
        \/ \E key \in Keys, val \in Vals : Put(t, key, val)
        \/ \E key \in Keys, type \in Types : GetTyped(t, key, type)
        \/ \E key \in Keys, type \in PopTypes : PopTyped(t, key, type)
        \/ Save(t)
        \/ CommitLock(t)
        \/ CommitGenerate(t)
        \/ CommitStore(t)
        \/ \E option \in Options : DestroyLock(t, option)
        \/ DestroyDelete(t)
        \/ DestroyReset(t)
        \/ \E option \in Options : RenewLock(t, option)
        \/ RenewDelete(t)
        \/ RenewGenerate(t)
        \/ \E token \in Tokens \cup {NoToken} : MergeFind(t, token)
        \/ MergeLock(t)
        \/ MergeDelete(t)

\* the next step of the operation sub-task t is in: taking the lock it waits
\* for, or the Store or Codec call it makes, which returns
Continue(t) ==
    \/ CommitFromSave(t)
    \/ CommitGenerate(t)
    \/ CommitStore(t)
    \/ DestroyDelete(t)
    \/ DestroyReset(t)
    \/ RenewDelete(t)
    \/ RenewGenerate(t)
    \/ MergeLock(t)
    \/ MergeDelete(t)

\* Every Store and Codec call returns, the scheduler runs every sub-task
\* that can run, and sync.Mutex hands the lock to a sub-task that waits for it.
SpecLive ==
    /\ InitConc
    /\ [][NextLive]_vars
    /\ WF_vars(Return)
    /\ \A t \in Tasks : SF_vars(Continue(t))

----------------------------------------------------------------------------
(* LoadAndSave: the request-cycle binding (middleware/http_middleware.go) *)

\* the key RememberMe puts its flag under
RememberMeKey == "__rememberMe"

\* the status codes the handler may have written to the buffering writer
\* (bw.code; 0: the handler did not call WriteHeader)
BufferedCodes == {0, 404}

\* what the handler wrote to the buffering writer (bw.buf)
Page == "page"

\* time.Unix(1, 0), a time before every time of the clock
UnixOne == -1

\* a http.Header with nothing in it: the values added under each name, the
\* cookies added under Set-Cookie
NoHeader == [values |-> {}, cookies |-> {}]

\* the http.ResponseWriter w of a request nothing was written to: header is
\* w.Header(), code the status sent (0: none yet), sent the header as it was
\* sent with the status, body what was written
NewResponse == [header |-> NoHeader, code |-> 0, sent |-> NoHeader, body |-> <<>>]

\* w.Header().Add(name, value)
HeaderAdd(w, name, value) == [w EXCEPT !.header.values = @ \cup {<<name, value>>}]

\* w.Header().Add("Set-Cookie", cookie.String())
SetCookie(w, cookie) == [w EXCEPT !.header.cookies = @ \cup {cookie}]

\* w.WriteHeader(code): the header is sent with the first status only
WriteHeader(w, code) ==
    IF w.code # 0 THEN w ELSE [w EXCEPT !.code = code, !.sent = w.header]

\* w.Write(b): sends status 200 first if no status was sent
Write(w, b) == [WriteHeader(w, 200) EXCEPT !.body = Append(@, b)]

\* http.Error(w, "Internal Server Error", 500)
defaultErrorFunc(w) ==
    Write(WriteHeader(HeaderAdd(w, "Content-Type", "text/plain"), 500), "Internal Server Error")

\* the cookie WriteSessionCookie builds
SessionCookie(token, expiry, persist, rememberMe) ==
    IF expiry = ZeroTime
    THEN [value |-> token, expires |-> UnixOne, maxAge |-> -1]
    ELSE IF persist \/ rememberMe
    THEN [value |-> token, expires |-> expiry + 1, maxAge |-> expiry - now + 1]
    ELSE [value |-> token, expires |-> ZeroTime, maxAge |-> 0]

\* s.manager.GetBool(ctx, "__rememberMe")
RememberMe == TypeAssert(Lookup(sd.values, RememberMeKey), "bool") = [type |-> "bool", val |-> "true"]

WriteSessionCookie(w, token, expiry, persist, rememberMe) ==
    HeaderAdd(SetCookie(w, SessionCookie(token, expiry, persist, rememberMe)),
              "Cache-Control", "no-cache=Set-Cookie")

\* what LoadAndSave was given and what it got from Load and Save
LoadAndSaveArg(load, code, multipart, save) ==
    [load |-> load, code |-> code, multipart |-> multipart, save |-> save]

\* Save was not called
NoSave == [token |-> NoToken, expiry |-> ZeroTime, err |-> "not called"]

\* what LoadAndSave leaves: the response and the errors errorFunc was called with
Served(w, errs) == [w |-> w, errs |-> errs]

\* Load returned an error: s.errorFunc(w, r, err); return
LoadAndSaveLoadFails ==
    /\ ret # NoRet
    /\ ret.op = "Load"
    /\ ret.err # NoErr
    /\ ret' = Result(ret.task, "LoadAndSave",
                     LoadAndSaveArg(ret.err, 0, FALSE, NoSave),
                     NoToken, ZeroTime, NoErr,
                     Served(defaultErrorFunc(NewResponse), <<ret.err>>), ret.calls)
    /\ UNCHANGED <<sd, mu, store, now, IdleTimeout, Lifetime, task, nTok, hist, env, nReq>>

\* the response after the handler, which parsed a multipart form or not
AfterHandler(multipart) ==
    IF multipart THEN Served(defaultErrorFunc(NewResponse), <<NoErr>>)
    ELSE Served(NewResponse, <<>>)

\* w.Header().Add("Vary", "Cookie"); w.WriteHeader(bw.code) if the handler
\* set one; w.Write(bw.buf.Bytes())
Deliver(w, code) ==
    Write(IF code # 0 THEN WriteHeader(HeaderAdd(w, "Vary", "Cookie"), code)
          ELSE HeaderAdd(w, "Vary", "Cookie"), Page)

\* switch err of Save: nil, ErrUnmodified, default
AfterSave(h, token, expiry, err, code) ==
    CASE err = NoErr ->
            Served(Deliver(WriteSessionCookie(h.w, token, expiry, env.persist, RememberMe), code), h.errs)
      [] err = ErrUnmodified ->
            Served(Deliver(h.w, code), h.errs)
      [] OTHER ->
            Served(defaultErrorFunc(h.w), Append(h.errs, err))

\* Save returned to LoadAndSave, whose handler had written code and Page to
\* the buffering writer: the response is completed and the request ends
LoadAndSaveSaved(code, multipart) ==
    /\ ret # NoRet
    /\ ret.op = "Save"
    /\ mu = Free
    /\ ret' = Result(ret.task, "LoadAndSave",
                     LoadAndSaveArg(NoErr, code, multipart,
                                    [token |-> ret.token, expiry |-> ret.expiry, err |-> ret.err]),
                     NoToken, ZeroTime, NoErr,
                     AfterSave(AfterHandler(multipart), ret.token, ret.expiry, ret.err, code),
                     ret.calls)
    /\ sd' = NoData
    /\ hist' = NoHist
    /\ UNCHANGED <<mu, store, now, IdleTimeout, Lifetime, task, nTok, env, nReq>>

\* a result that goes to the handler
HandlerReturn ==
    /\ ret.op # "Save"
    /\ ret.op = "Load" => ret.err = NoErr
    /\ Return

\* two requests in turn through LoadAndSave, with a cookie or without, on a
\* Manager whose cookies persist or not; the handler may call RememberMe
InitHTTP ==
    \E persist \in BOOLEAN :
        InitWith([requests |-> 2, tasks |-> {"t1"}, keys |-> {RememberMeKey}, stored |-> {},
                  vals |-> Vals, idle |-> {0},
                  tokens |-> StoreKeys \cup {NoToken}, types |-> {"bool"},
                  options |-> {NoOption}, times |-> {1}, earlier |-> {1},
                  persist |-> persist])

NextHTTP ==
    \/ HandlerReturn
    \/ Tick
    \/ LoadAndSaveLoadFails
    \/ \E code \in BufferedCodes, multipart \in BOOLEAN : LoadAndSaveSaved(code, multipart)
    \/ \E t \in Tasks :
        \/ \E token \in Tokens \cup {NoToken} : Load(t, token, NoOption)
        \/ \E val \in Vals : Put(t, RememberMeKey, val)
        \/ Save(t)
        \/ CommitLock(t)
        \/ CommitGenerate(t)
        \/ CommitStore(t)
        \/ DestroyLock(t, NoOption)
        \/ DestroyDelete(t)
        \/ DestroyReset(t)

SpecHTTP == InitHTTP /\ [][NextHTTP]_vars

----------------------------------------------------------------------------

(* The Redis Store (store/redis/redis.go) *)
(* Under SpecRedis the variable store is the Redis database: a Redis key is  *)
(* <<prefix, token>>, the string prefix + token, and <<"", token>> is the    *)
(* bare token; sd stays NoData.                                            *)

\* the prefix New sets
DefaultPrefix == "scs:session:"

\* the prefixes of the Stores checked: New's, one set with WithPrefix, and
\* WithPrefix("")
Prefixes == {DefaultPrefix, "app:", ""}

RedisKeys == {<<p, token>> : p \in Prefixes, token \in Tokens}

\* the data of the sessions committed
Bytes == {"b1", "b2"}

\* the expiry times Commit is called with
Expiries == 1..(MaxTime + 1)

\* client.Get(ctx, key): the value, or NoRow for redis.Nil
RedisGet(key) == store[key]

\* client.SetArgs(ctx, key, b, redis.SetArgs{ExpireAt: expiry}): SET key b
\* EXAT expiry; a key set to expire at a time not in the future is gone
RedisSet(key, b, expiry) ==
    [store EXCEPT ![key] = IF expiry <= now THEN NoRow ELSE [b |-> b, expiry |-> expiry]]

\* client.Del(ctx, key)
RedisDel(key) == [store EXCEPT ![key] = NoRow]

\* client.Keys(ctx, pattern) for the pattern prefix*
RedisKeysMatching(p) == {key \in RedisKeys : store[key] # NoRow /\ (p = "" \/ key[1] = p)}

\* the key Find reads: client.Get(ctx, token)
FindKey(token) == <<"", token>>

\* the key Commit writes: s.prefix+token
CommitKey(token) == <<env.prefix, token>>

\* the key Delete removes: client.Del(ctx, token)
DeleteKeyOf(token) == <<"", token>>

\* what Find returns when the command succeeds
Found(token) ==
    IF RedisGet(FindKey(token)) = NoRow THEN [b |-> "nil", exists |-> FALSE]
    ELSE [b |-> RedisGet(FindKey(token)).b, exists |-> TRUE]

RedisReady(t) == ret = NoRet /\ t \in env.tasks

RedisFind(t, token) ==
    /\ RedisReady(t)
    /\ \E ok \in BOOLEAN :
         ret' = IF ok THEN Result(t, "Find", token, NoToken, ZeroTime, NoErr, Found(token), <<"Get">>)
                ELSE Result(t, "Find", token, NoToken, ZeroTime, ErrStore,
                            [b |-> "nil", exists |-> FALSE], <<"Get">>)
    /\ UNCHANGED <<sd, mu, store, now, IdleTimeout, Lifetime, task, nTok, hist, env, nReq>>

RedisCommit(t, token, b, expiry) ==
    /\ RedisReady(t)
    /\ \E ok \in BOOLEAN :
         IF ok
         THEN /\ store' = RedisSet(CommitKey(token), b, expiry)
              /\ ret' = Result(t, "Commit", token, NoToken, expiry, NoErr, b, <<"Set">>)
         ELSE /\ ret' = Result(t, "Commit", token, NoToken, expiry, ErrStore, b, <<"Set">>)
              /\ UNCHANGED store
    /\ UNCHANGED <<sd, mu, now, IdleTimeout, Lifetime, task, nTok, hist, env, nReq>>

RedisDelete(t, token) ==
    /\ RedisReady(t)
    /\ \E ok \in BOOLEAN :
         IF ok
         THEN /\ store' = RedisDel(DeleteKeyOf(token))
              /\ ret' = Result(t, "Delete", token, NoToken, ZeroTime, NoErr, Nil, <<"Del">>)
         ELSE /\ ret' = Result(t, "Delete", token, NoToken, ZeroTime, ErrStore, Nil, <<"Del">>)
              /\ UNCHANGED store
    /\ UNCHANGED <<sd, mu, now, IdleTimeout, Lifetime, task, nTok, hist, env, nReq>>

\* the map All builds, keyed by the Redis keys that match prefixEscaped*
RedisAll(t) ==
    /\ RedisReady(t)
    /\ \E ok \in BOOLEAN :
         ret' = IF ok
                THEN Result(t, "All", NoArg, NoToken, ZeroTime, NoErr,
                            [key \in RedisKeysMatching(env.prefixEscaped) |-> store[key].b],
                            <<"Keys", "MGet">>)
                ELSE Result(t, "All", NoArg, NoToken, ZeroTime, ErrStore, Nil, <<"Keys">>)
    /\ UNCHANGED <<sd, mu, store, now, IdleTimeout, Lifetime, task, nTok, hist, env, nReq>>

\* time passes: Redis drops the keys whose expiry is reached
RedisTick ==
    /\ ret = NoRet
    /\ now < MaxTime
    /\ now' = now + 1
    /\ store' = [key \in RedisKeys |->
                    IF store[key] # NoRow /\ store[key].expiry <= now + 1 THEN NoRow ELSE store[key]]
    /\ UNCHANGED <<sd, mu, IdleTimeout, Lifetime, task, ret, nTok, hist, env, nReq>>

\* New(client) or New(client, WithPrefix(p)) on an empty database
InitRedis ==
    /\ \E p \in Prefixes, configured \in BOOLEAN :
         /\ ~configured => p = DefaultPrefix
         /\ env = [tasks |-> {"t1"}, prefix |-> p,
                   prefixEscaped |-> IF configured THEN p ELSE ""]
    /\ store = [key \in RedisKeys |-> NoRow]
    /\ sd = NoData
    /\ mu = Free
    /\ now = 1
    /\ IdleTimeout = 0
    /\ Lifetime \in Lifetimes
    /\ task = [t \in Tasks |-> Idle]
    /\ ret = NoRet
    /\ nTok = 0
    /\ nReq = 0
    /\ hist = NoHist

NextRedis ==
    \/ Return
    \/ RedisTick
    \/ \E t \in Tasks :
        \/ \E token \in Tokens : RedisFind(t, token)
        \/ \E token \in Tokens, b \in Bytes, expiry \in Expiries : RedisCommit(t, token, b, expiry)
        \/ \E token \in Tokens : RedisDelete(t, token)
        \/ RedisAll(t)

SpecRedis == InitRedis /\ [][NextRedis]_vars

----------------------------------------------------------------------------

(* Properties *)

\* C1: Save dispatches on the record's status.  Modified: it calls Commit and
\* returns Commit's result, which on success is the record's token, the
\* expiry Commit computed and the row it upserted, and on failure the empty
\* token, the zero time and Commit's error.  Destroyed: ("", zero time, nil)
\* with no Store call.  Unmodified: ("", zero time, ErrUnmodified) with no
\* Store call.
C1_SaveDispatch ==
    ret.op = "Save" =>
        CASE sd.status = Destroyed ->
                /\ ret.token = NoToken /\ ret.expiry = ZeroTime /\ ret.err = NoErr
                /\ ret.calls = <<>>
          [] sd.status = Unmodified ->
                /\ ret.token = NoToken /\ ret.expiry = ZeroTime /\ ret.err = ErrUnmodified
                /\ ret.calls = <<>>
          [] OTHER ->
                IF ret.err = NoErr
                THEN /\ ret.token = sd.token
                     /\ ret.token # NoToken
                     /\ ret.expiry = CommitExpiry(sd.deadline)
                     /\ ret.calls = <<"Encode", "Commit">>
                     /\ store[ret.token] = [b |-> Encode(sd.deadline, sd.values),
                                            expiry |-> ret.expiry]
                ELSE /\ ret.token = NoToken /\ ret.expiry = ZeroTime
                     /\ ret.err \in {ErrRand, ErrCodec, ErrStore}

\* a Save of a Modified record that committed it
C1_Witness ==
    /\ ret.op = "Save"
    /\ sd.status = Modified
    /\ ret.err = NoErr
    /\ ret.token # NoToken

\* C2: with no Destroy and no RenewToken between them, every successful Commit
\* on a record returns the same token: a Commit generates a token only when
\* the record's token is empty and never replaces a non-empty one.
C2_SameToken ==
    /\ [](ret.op \in {"Commit", "Save"} /\ ret.err = NoErr /\ ret.calls # <<>>
            => ret.token = sd.token /\ hist.returned = {ret.token})
    /\ [][\A t \in Tasks :
            mu = t /\ task[t].op \in {"Commit", "Save"} =>
                /\ nTok' # nTok => sd.token = NoToken
                /\ sd.token # NoToken => sd'.token = sd.token]_vars

\* a second successful Commit by a task, on a record whose token a Commit
\* generated, with no Destroy or RenewToken since
C2_Witness ==
    /\ ret.op = "Commit"
    /\ ret.err = NoErr
    /\ ret.arg.prior = ret.task
    /\ hist.generated = {ret.token}

\* C3: when sub-tasks call Commit concurrently on a record whose token is
\* empty, exactly one token is generated for the record, every successful
\* Commit returns it, and the Store gets a row under that token only.
C3_OneTokenConcurrently ==
    /\ Cardinality(hist.generated) <= 1
    /\ hist.generated # {} =>
          /\ hist.returned \subseteq hist.generated
          /\ hist.upserted \subseteq hist.generated
          /\ store[NoToken] = NoRow
    /\ ret.op \in {"Commit", "Save"} /\ ret.err = NoErr /\ ret.calls # <<>> /\ hist.generated # {}
          => {ret.token} = hist.generated

\* sub-task t2's Commit succeeded after sub-task t1's on a record whose token
\* a Commit generated
C3_Witness ==
    /\ ret.op = "Commit"
    /\ ret.task = "t2"
    /\ ret.err = NoErr
    /\ ret.arg.prior = "t1"
    /\ hist.generated = {ret.token}

\* C4: the expiry Commit passes to the Store and returns is
\* min(deadline, now + idle timeout) when the idle timeout is greater than 0
\* and the deadline when it is 0, for every deadline, past ones included.
C4_Expiry ==
    ret.op \in {"Commit", "Save"} /\ ret.err = NoErr /\ ret.calls # <<>> =>
        /\ IdleTimeout = 0 => ret.expiry = sd.deadline
        /\ IdleTimeout > 0 =>
              /\ ret.expiry \in {sd.deadline, now + IdleTimeout}
              /\ ret.expiry <= sd.deadline
              /\ ret.expiry <= now + IdleTimeout
        /\ store[ret.token].expiry = ret.expiry

\* a successful Commit of a record whose deadline has passed, under an idle timeout
C4_Witness ==
    /\ ret.op = "Commit"
    /\ ret.err = NoErr
    /\ IdleTimeout > 0
    /\ sd.deadline < now
    /\ ret.expiry = sd.deadline

\* C5: Put, Expire, a Pop or Remove of a present key and a Clear of a
\* non-empty mapping leave the status Modified, and a Modified record stays
\* Modified under every operation until a Destroy succeeds.
C5_ModifiedSticks ==
    [][/\ ret'.op \in {"Put", "Expire"} => sd'.status = Modified
       /\ ret'.op \in {"Pop", "Remove"} /\ ret'.arg \in DOMAIN sd.values
            => sd'.status = Modified
       /\ ret'.op = "Clear" /\ DOMAIN sd.values # {} => sd'.status = Modified
       /\ sd.status = Modified /\ sd' # NoData
            => \/ sd'.status = Modified
               \/ ret'.op = "Destroy" /\ ret'.err = NoErr]_vars

\* a Pop of a present key, after a successful Commit, leaving the record Modified
C5_Witness ==
    /\ ret.op = "Pop"
    /\ ret.val # Nil
    /\ sd.status = Modified
    /\ hist.last # NoTask

\* C6: Get, Exists, Keys, Status, Deadline, Token and the typed Get wrappers
\* leave the record's status, token, deadline and values unchanged.
C6_ReadOnly ==
    [][ret'.op \in {"Get", "Exists", "Keys", "Status", "Deadline", "Token"}
                    \cup {"Get_" \o type : type \in Types}
          => /\ sd'.status = sd.status
             /\ sd'.token = sd.token
             /\ sd'.deadline = sd.deadline
             /\ sd'.values = sd.values]_vars

\* a Get that found its key in an Unmodified record, which is Unmodified still
C6_Witness ==
    /\ ret.op = "Get"
    /\ ret.val # Nil
    /\ sd.status = Unmodified

\* C7: after a successful Destroy the record is Destroyed with an empty token,
\* an empty mapping and deadline now + Lifetime, or the deadline the supplied
\* option sets, and the Store has no row under the token the record had.
C7_DestroyResets ==
    ret.op = "Destroy" /\ ret.err = NoErr =>
        /\ sd.status = Destroyed
        /\ sd.token = NoToken
        /\ sd.values = EmptyValues
        /\ sd.deadline = CASE ret.arg.kind = "WithDeadline" -> ret.arg.deadline
                            [] ret.arg.kind = "WithLifetime" -> now + ret.arg.lifetime
                            [] OTHER -> now + Lifetime
        /\ store[hist.prev] = NoRow

\* a successful Destroy, without options, of a record that had a token
C7_Witness ==
    /\ ret.op = "Destroy"
    /\ ret.err = NoErr
    /\ ret.arg = NoOption
    /\ hist.prev # NoToken

\* C8 as stated: the reset that is part of Destroy returns the status to
\* Unmodified.
C8_ResetToUnmodified ==
    ret.op = "Destroy" /\ ret.err = NoErr => sd.status = Unmodified

\* C8, amended: Destroy moves the status to Destroyed and its reset leaves it
\* there: the reset record is Destroyed until an operation that marks it
\* (Put, Expire, RenewToken or a merging MergeSession) makes it Modified.
C8_ResetStaysDestroyed ==
    [][/\ ret'.op = "Destroy" /\ ret'.err = NoErr => sd'.status = Destroyed
       /\ sd.status = Destroyed /\ sd' # NoData /\ sd'.status # Destroyed =>
            /\ sd'.status = Modified
            /\ \/ ret'.op \in {"Put", "Expire", "RenewToken"}
               \/ \E t \in Tasks : /\ task[t].pc = "Merge_lock"
                                    /\ task'[t].pc = "Merge_delete"]_vars

\* Status reports Destroyed for the record a Destroy has reset
C8_Witness ==
    /\ ret.op = "Status"
    /\ ret.val = Destroyed
    /\ sd.token = NoToken
    /\ sd.values = EmptyValues

\* C9: the status of an existing record changes only Unmodified -> Modified,
\* Unmodified -> Destroyed, Modified -> Destroyed and Destroyed -> Modified;
\* never from Modified back to Unmodified.
C9_Transitions ==
    [][sd # NoData /\ sd' # NoData /\ sd'.status # sd.status =>
          <<sd.status, sd'.status>> \in {<<Unmodified, Modified>>, <<Unmodified, Destroyed>>,
                                         <<Modified, Destroyed>>, <<Destroyed, Modified>>}]_vars

\* a record that had a token, was Destroyed and has been marked Modified since
C9_Witness ==
    /\ sd.status = Modified
    /\ sd.token = NoToken
    /\ hist.prev # NoToken
    /\ ret.op = "Put"

\* C10: a record whose token is empty has had no successful Commit since it
\* was created or reset by Destroy, and a token becomes non-empty only by a
\* Store hit in Load, a Commit or a RenewToken.
C10_EmptyToken ==
    /\ [](sd # NoData /\ sd.token = NoToken => hist.last = NoTask)
    /\ [][(sd = NoData \/ sd.token = NoToken) /\ sd' # NoData /\ sd'.token # NoToken =>
            \/ ret'.op = "Load" /\ ret'.calls = <<"Find", "Decode">>
            \/ ret'.op = "RenewToken"
            \/ \E t \in Tasks : mu = t /\ task[t].op \in {"Commit", "Save"}]_vars

\* a Commit that failed on a record reset by Destroy: the token is empty still
C10_Witness ==
    /\ ret.op = "Commit"
    /\ ret.err # NoErr
    /\ sd.token = NoToken
    /\ hist.prev # NoToken

\* C11: when the Store delete fails during Destroy, Destroy returns that error
\* and the record's status, token, deadline and values, and the Store, are
\* what they were before the call: the reset is not applied.
C11_DestroyDeleteFails ==
    [][ret'.op = "Destroy" /\ ret'.err # NoErr =>
          /\ ret'.err = ErrStore
          /\ ret'.calls = <<"Delete">>
          /\ sd'.status = sd.status
          /\ sd'.token = sd.token
          /\ sd'.deadline = sd.deadline
          /\ sd'.values = sd.values
          /\ store' = store]_vars

\* a Destroy whose delete failed, on a Modified record with a token, a value and a row
C11_Witness ==
    /\ ret.op = "Destroy"
    /\ ret.err = ErrStore
    /\ sd.status = Modified
    /\ sd.token # NoToken
    /\ sd.values # EmptyValues
    /\ store[sd.token] # NoRow

\* C12: a successful RenewToken on a record with token T gives it a token
\* different from T, status Modified, deadline now + Lifetime or the
\* option's value, and the same values, and deletes T's row; a following
\* Commit returns the new token and stores the record's values under it, and
\* a find of T reports a miss.
C12_RenewToken ==
    /\ [][ret'.op = "RenewToken" /\ ret'.err = NoErr =>
            /\ sd'.token # sd.token
            /\ sd'.token # NoToken
            /\ sd'.status = Modified
            /\ sd'.deadline = CASE ret'.arg.kind = "WithDeadline" -> ret'.arg.deadline
                                 [] ret'.arg.kind = "WithLifetime" -> now + ret'.arg.lifetime
                                 [] OTHER -> now + Lifetime
            /\ sd'.values = sd.values
            /\ store'[sd.token] = NoRow]_vars
    /\ [](/\ ret.op = "Commit" /\ ret.err = NoErr
           /\ hist.prev # NoToken /\ hist.generated = {}
           => /\ ret.token = sd.token
              /\ ret.token # hist.prev
              /\ store[ret.token].b = Encode(sd.deadline, sd.values)
              /\ ~StoreFound(hist.prev))

\* a successful Commit that follows the RenewToken of a record with a token and a value
C12_Witness ==
    /\ ret.op = "Commit"
    /\ ret.err = NoErr
    /\ hist.prev # NoToken
    /\ hist.generated = {}
    /\ sd.values # EmptyValues

\* C13: when the Store delete of the old token fails during RenewToken,
\* RenewToken returns that error, no token is generated or assigned, and the
\* record and the old row are unchanged.
C13_RenewDeleteFails ==
    [][ret'.op = "RenewToken" /\ ret'.err = ErrStore =>
          /\ ret'.calls = <<"Delete">>
          /\ nTok' = nTok
          /\ sd' = sd
          /\ store' = store]_vars

\* a RenewToken whose delete failed, on a record with a token and a row
C13_Witness ==
    /\ ret.op = "RenewToken"
    /\ ret.err = ErrStore
    /\ sd.token # NoToken
    /\ store[sd.token] # NoRow

\* C14: when the Codec encode or the Store upsert fails, Commit returns the
\* empty token, the zero time and the error and writes no row; a token Commit
\* generated stays on the record, and the next successful Commit returns it
\* without generating another.
C14_CommitFails ==
    /\ [][ret'.op \in {"Commit", "Save"} /\ ret'.err \in {ErrCodec, ErrStore} =>
            /\ ret'.token = NoToken
            /\ ret'.expiry = ZeroTime
            /\ store' = store
            /\ sd' = sd
            /\ sd'.token # NoToken
            /\ nTok' = nTok]_vars
    /\ [](/\ ret.op \in {"Commit", "Save"} /\ ret.err = NoErr /\ ret.calls # <<>>
           /\ ret.arg.token # NoToken
           => ret.token = ret.arg.token /\ hist.generated \subseteq {ret.token})

\* the first successful Commit of a record returns the token an earlier,
\* failed Commit generated
C14_Witness ==
    /\ ret.op = "Commit"
    /\ ret.err = NoErr
    /\ ret.arg.prior = NoTask
    /\ ret.arg.token # NoToken
    /\ hist.generated = {ret.arg.token}
    /\ ret.token = ret.arg.token

\* C15: when the scope already carries a record, Load returns no error, calls
\* neither the Store nor the Codec, applies no option and leaves the record
\* unchanged, whatever token is passed.
C15_LoadIdempotent ==
    [][sd # NoData /\ ret'.op = "Load" =>
          /\ ret'.err = NoErr
          /\ ret'.calls = <<>>
          /\ sd' = sd
          /\ store' = store]_vars

\* a Load, with the token of a live row and a deadline option, on a scope
\* that carries a record with another token and another deadline
C15_Witness ==
    /\ ret.op = "Load"
    /\ ret.calls = <<>>
    /\ ret.arg.token # NoToken
    /\ StoreFound(ret.arg.token)
    /\ sd.token # ret.arg.token
    /\ ret.arg.option.kind = "WithDeadline"
    /\ sd.deadline # ret.arg.option.deadline

\* C16: Load with an empty token, or with a token the Store does not find,
\* attaches a fresh record: empty token, Unmodified, empty values, deadline
\* now + Lifetime unless an option sets it; with an empty token the Store is
\* not queried.
C16_LoadFresh ==
    [][/\ sd = NoData /\ ret'.op = "Load" /\ ret'.err = NoErr
       /\ ret'.arg.token = NoToken \/ ~StoreFound(ret'.arg.token)
       => /\ sd' # NoData
          /\ sd'.token = NoToken
          /\ sd'.status = Unmodified
          /\ sd'.values = EmptyValues
          /\ sd'.deadline =
                CASE ret'.arg.option.kind = "WithDeadline" -> ret'.arg.option.deadline
                  [] ret'.arg.option.kind = "WithLifetime" -> now + ret'.arg.option.lifetime
                  [] OTHER -> now + Lifetime
          /\ ret'.calls = IF ret'.arg.token = NoToken THEN <<>> ELSE <<"Find">>
          /\ store' = store]_vars

\* a Load, without options, of a token the Store did not find
C16_Witness ==
    /\ ret.op = "Load"
    /\ ret.err = NoErr
    /\ ret.calls = <<"Find">>
    /\ ret.arg.option = NoOption
    /\ sd.token = NoToken
    /\ sd.status = Unmodified
    /\ sd.deadline = now + Lifetime

\* C17: Load with a token the Store finds attaches a record with that token
\* and the deadline and values decoded from the stored bytes, options not
\* applied, Modified when the idle timeout is greater than 0 and Unmodified
\* otherwise.
C17_LoadHit ==
    [][/\ sd = NoData /\ ret'.op = "Load" /\ ret'.err = NoErr
       /\ ret'.arg.token # NoToken /\ StoreFound(ret'.arg.token)
       => /\ sd' # NoData
          /\ sd'.token = ret'.arg.token
          /\ Encode(sd'.deadline, sd'.values) = store[ret'.arg.token].b
          /\ sd'.status = IF IdleTimeout > 0 THEN Modified ELSE Unmodified
          /\ ret'.calls = <<"Find", "Decode">>]_vars

\* a Load, with a deadline option, that found the token: the record has the
\* stored deadline, not the option's, and the idle timeout marked it
C17_Witness ==
    /\ ret.op = "Load"
    /\ ret.err = NoErr
    /\ ret.calls = <<"Find", "Decode">>
    /\ ret.arg.option.kind = "WithDeadline"
    /\ sd.deadline # ret.arg.option.deadline
    /\ sd.values # EmptyValues
    /\ IdleTimeout > 0
    /\ sd.status = Modified

\* C18: a request that Loads a persisted session and leaves the record as
\* loaded ends, when the idle timeout is greater than 0, with Save upserting
\* the row under the same token with expiry min(deadline, now + idle
\* timeout), and, when the idle timeout is 0, with Save returning
\* ErrUnmodified and no Store write.
C18_IdleRefresh ==
    ret.op = "Save" /\ hist.loaded # NoData /\ sd = hist.loaded =>
        IF IdleTimeout > 0
        THEN /\ ret.calls \in {<<"Encode">>, <<"Encode", "Commit">>}
             /\ ret.err = ErrCodec <=> ret.calls = <<"Encode">>
             /\ ret.err \in {NoErr, ErrCodec, ErrStore}
             /\ ret.err = NoErr =>
                   /\ ret.token = hist.loaded.token
                   /\ ret.expiry = IF now + IdleTimeout < sd.deadline
                                    THEN now + IdleTimeout ELSE sd.deadline
                   /\ store[ret.token] = [b |-> Encode(sd.deadline, sd.values),
                                          expiry |-> ret.expiry]
        ELSE /\ ret.err = ErrUnmodified
             /\ ret.token = NoToken
             /\ ret.calls = <<>>

\* the Save of a session that was loaded and left as it was, refreshing its
\* row to now + idle timeout, before the deadline
C18_Witness ==
    /\ ret.op = "Save"
    /\ ret.err = NoErr
    /\ IdleTimeout > 0
    /\ hist.loaded # NoData
    /\ sd = hist.loaded
    /\ ret.token = sd.token
    /\ ret.expiry = now + IdleTimeout
    /\ ret.expiry < sd.deadline

\* C19: when the Store find, or the Codec decode of the found bytes, fails,
\* Load returns that error and the scope as it was: no record is attached,
\* and the failed call was made once.
C19_LoadFails ==
    ret.op = "Load" /\ ret.err # NoErr =>
        /\ sd = NoData
        /\ nReq = 0
        /\ hist = NoHist
        /\ \/ ret.err = ErrStore /\ ret.calls = <<"Find">>
           \/ /\ ret.err = ErrCodec /\ ret.calls = <<"Find", "Decode">>
              /\ StoreFound(ret.arg.token)

\* a Load whose decode of the found bytes failed
C19_Witness ==
    /\ ret.op = "Load"
    /\ ret.err = ErrCodec
    /\ sd = NoData
    /\ StoreFound(ret.arg.token)

\* C20: a MergeSession with a token the Store does not find, or with the
\* record's own token, changes nothing: the record is as it was, no row is
\* deleted or written, and no error is returned (the Store find, which comes
\* first, not failing).
C20_MergeNoOp ==
    [][/\ ret'.op = "MergeSession" /\ task[ret'.task] = Idle /\ ~StoreFound(ret'.arg)
            => /\ sd' = sd
               /\ store' = store
               /\ ret'.err \in {NoErr, ErrStore}
               /\ ret'.calls = <<"Find">>
       /\ \A t \in Tasks :
            /\ task[t].pc = "Merge_lock" /\ task[t].arg.token = sd.token
            /\ task'[t] # task[t]
            => /\ ret'.op = "MergeSession"
               /\ ret'.err = NoErr
               /\ ret'.calls = <<"Find", "Decode">>
               /\ sd' = sd
               /\ store' = store]_vars

\* a MergeSession with the record's own token, whose row the Store found
C20_Witness ==
    /\ ret.op = "MergeSession"
    /\ ret.err = NoErr
    /\ ret.calls = <<"Find", "Decode">>
    /\ ret.arg = sd.token
    /\ sd.token # NoToken
    /\ store[sd.token] # NoRow

\* C21: a MergeSession that finds a foreign session whose token differs from
\* the record's leaves the record's deadline at the later of the deadline it
\* had and the foreign session's deadline: never less than either, never
\* shortened.
C21_MergeDeadline ==
    [][\A t \in Tasks :
          /\ task[t] = Idle /\ task'[t].pc = "Merge_lock"
                => task'[t].arg.deadline = DecodeDeadline(store[task'[t].arg.token].b)
          /\ task[t].pc = "Merge_lock" /\ task[t].arg.token # sd.token /\ task'[t] # task[t]
                => /\ task'[t].pc = "Merge_delete"
                   /\ sd'.deadline \in {sd.deadline, task[t].arg.deadline}
                   /\ sd'.deadline >= sd.deadline
                   /\ sd'.deadline >= task[t].arg.deadline
          /\ task[t].pc = "Merge_delete" => sd'.deadline = sd.deadline]_vars

\* a merge, into a record with a token, of a foreign session whose deadline is
\* earlier than the record's
C21_Witness ==
    \E t \in Tasks :
        /\ task[t].pc = "Merge_delete"
        /\ sd.token # NoToken
        /\ task[t].arg.deadline < sd.deadline

\* C22: a MergeSession that finds a foreign session whose token differs from
\* the record's leaves the record with the union of its values and the
\* foreign values, the foreign value on every key both have, with status
\* Modified and its token unchanged; when it returns without error the Store
\* has no row under the foreign token.
C22_MergeValues ==
    /\ [](\A t \in Tasks : task[t].pc = "Merge_delete" =>
            /\ DOMAIN sd.values = DOMAIN task[t].arg.was.values \cup DOMAIN task[t].arg.values
            /\ \A k \in DOMAIN task[t].arg.values : sd.values[k] = task[t].arg.values[k]
            /\ \A k \in DOMAIN task[t].arg.was.values \ DOMAIN task[t].arg.values :
                    sd.values[k] = task[t].arg.was.values[k]
            /\ sd.status = Modified
            /\ sd.token = task[t].arg.was.token
            /\ sd.token # task[t].arg.token)
    /\ [][\A t \in Tasks :
            /\ task[t] = Idle /\ task'[t].pc = "Merge_lock"
                  => task'[t].arg.values = DecodeValues(store[task'[t].arg.token].b)
            /\ task[t].pc = "Merge_lock" /\ task[t].arg.token # sd.token /\ task'[t] # task[t]
                  => task'[t].pc = "Merge_delete" /\ task'[t].arg.was = sd
            /\ task[t].pc = "Merge_delete" /\ task'[t] # task[t]
                  => /\ ret'.op = "MergeSession"
                     /\ ret'.calls = <<"Find", "Decode", "Delete">>
                     /\ sd' = sd
                     /\ ret'.err = NoErr => store'[task[t].arg.token] = NoRow]_vars

\* a merge into a record that has a key the foreign session lacks and, under
\* a key both have, had a value other than the foreign one
C22_Witness ==
    \E t \in Tasks :
        /\ task[t].pc = "Merge_delete"
        /\ DOMAIN task[t].arg.was.values \ DOMAIN task[t].arg.values # {}
        /\ \E k \in DOMAIN task[t].arg.was.values \cap DOMAIN task[t].arg.values :
              /\ task[t].arg.was.values[k] # task[t].arg.values[k]
              /\ sd.values[k] = task[t].arg.values[k]

\* C23: Iterate is fail-fast.  The callback is invoked once for each entry the
\* Store's All returned, in the order of the iteration, with a record that
\* has the entry's token, the deadline and values decoded from its bytes and
\* status Unmodified; the first decode error or callback error is what
\* Iterate returns, and the callback is invoked for no entry after it.
C23_IterateFailFast ==
    ret.op = "Iterate" /\ ret.calls # <<"All">> =>
        LET all == ret.arg.all
            order == ret.arg.order
            called == ret.val
            n == Len(ret.val)
        IN  /\ all = StoreAll
            /\ n <= Len(order)
            /\ \A i \in 1..n :
                  /\ called[i].token = order[i]
                  /\ Encode(called[i].deadline, called[i].values) = all[order[i]]
                  /\ called[i].status = Unmodified
                  /\ ret.arg.decodeOk[order[i]]
                  /\ i < n => ret.arg.fnOk[order[i]]
            /\ ret.err \in {NoErr, ErrCodec, ErrFn}
            /\ ret.err = NoErr =>
                  /\ {called[i].token : i \in 1..n} = DOMAIN all
                  /\ n = Cardinality(DOMAIN all)
                  /\ \A k \in DOMAIN all : ret.arg.decodeOk[k] /\ ret.arg.fnOk[k]
            /\ ret.err = ErrFn => n >= 1 /\ ~ret.arg.fnOk[order[n]]
            /\ ret.err = ErrCodec =>
                  /\ n < Len(order)
                  /\ ~ret.arg.decodeOk[order[n + 1]]
                  /\ n >= 1 => ret.arg.fnOk[order[n]]

\* an Iterate over two sessions whose callback failed on the first: it was
\* not invoked for the second, whose decode and callback would have succeeded
C23_Witness ==
    /\ ret.op = "Iterate"
    /\ ret.err = ErrFn
    /\ Len(ret.arg.order) = 2
    /\ Len(ret.val) = 1
    /\ ret.arg.decodeOk[ret.arg.order[2]]
    /\ ret.arg.fnOk[ret.arg.order[2]]

\* C24: each typed Get wrapper returns the stored value when the key holds a
\* value of its type, and its type's zero value when the key is absent and
\* when the key holds a value of another type; it returns no error and
\* leaves the record as it was.
C24_TypedGet ==
    [][\A type \in Types :
          ret'.op = "Get_" \o type =>
              /\ ret'.val = IF ret'.arg \in DOMAIN sd.values
                            THEN IF sd.values[ret'.arg].type = type
                                 THEN sd.values[ret'.arg]
                                 ELSE [type |-> type, val |-> "zero"]
                            ELSE [type |-> type, val |-> "zero"]
              /\ ret'.err = NoErr
              /\ sd' = sd]_vars

\* GetBool on a key that holds a string returned false
C24_Witness ==
    /\ ret.op = "Get_bool"
    /\ ret.arg \in DOMAIN sd.values
    /\ sd.values[ret.arg].type = "string"
    /\ ret.val = [type |-> "bool", val |-> "zero"]

\* C25: a record that Load created for an empty token and that has had one or
\* more Puts is Modified when Commit is called, and after a successful Commit
\* the Store has, under the token returned, a row whose bytes decode to the
\* record's deadline and values; a Load of that token in the scope of a later
\* request attaches a record with that token and the deadline and values the
\* row decodes to.
C25_RoundTrip ==
    /\ [](ret.op = "Commit" /\ ret.err = NoErr =>
            /\ ret.token = sd.token
            /\ ret.token # NoToken
            /\ store[ret.token] # NoRow
            /\ DecodeDeadline(store[ret.token].b) = sd.deadline
            /\ DecodeValues(store[ret.token].b) = sd.values)
    /\ [][/\ \A t \in Tasks :
                /\ task[t] = Idle /\ task'[t].op = "Commit"
                /\ hist.loaded = NoData /\ sd.values # EmptyValues
                => sd.status = Modified
          /\ ret'.op = "Load" /\ ret'.calls = <<"Find", "Decode">> /\ ret'.err = NoErr
                => /\ sd = NoData
                   /\ sd'.token = ret'.arg.token
                   /\ sd'.deadline = DecodeDeadline(store[ret'.arg.token].b)
                   /\ sd'.values = DecodeValues(store[ret'.arg.token].b)]_vars

\* the second request loaded the session that the first request created with
\* an empty token, put two values into and committed
C25_Witness ==
    /\ ret.op = "Load"
    /\ ret.calls = <<"Find", "Decode">>
    /\ ret.err = NoErr
    /\ nReq = 2
    /\ sd.token = ret.arg.token
    /\ DOMAIN sd.values = Keys
    /\ store[sd.token].b = Encode(sd.deadline, sd.values)

\* C26: at most one operation at a time is inside the critical section of a
\* record that concurrent sub-tasks share, and every step in which a Manager
\* operation other than Load and Iterate reads or writes the record's token,
\* deadline, status or values is taken by a sub-task that holds the record's
\* lock or takes the free lock in that step; MergeSession's find and decode,
\* which come before its lock, touch none of them.
C26_LockGuards ==
    /\ [](/\ \A t \in Tasks :
                task[t].pc \in {"Commit_generate", "Commit_encode", "Destroy_delete",
                                "Destroy_reset", "Renew_delete", "Renew_generate",
                                "Merge_delete"} <=> mu = t
          /\ Cardinality({t \in Tasks :
                task[t].pc \in {"Commit_generate", "Commit_encode", "Destroy_delete",
                                "Destroy_reset", "Renew_delete", "Renew_generate",
                                "Merge_delete"}}) <= 1)
    /\ [][/\ \A t \in Tasks :
                /\ \/ task'[t] # task[t]
                   \/ ret' # NoRet /\ ret'.task = t
                /\ ~(ret' # NoRet /\ ret'.op \in {"Load", "Iterate"})
                /\ ~(task[t] = Idle /\ task'[t].pc = "Merge_lock")
                /\ ~(task[t] = Idle /\ ret' # NoRet /\ ret'.op = "MergeSession")
                => mu \in {Free, t}
          /\ sd # NoData /\ sd' # NoData /\ sd' # sd
                => \E t \in Tasks :
                      /\ mu \in {Free, t}
                      /\ \/ task'[t] # task[t]
                         \/ ret' # NoRet /\ ret'.task = t
          /\ \A t \in Tasks :
                task[t] = Idle /\ (task'[t].pc = "Merge_lock" \/ ret'.op = "MergeSession")
                => sd' = sd]_vars

\* sub-task t1 is inside Destroy's critical section while sub-task t2, whose
\* MergeSession has found a foreign session, waits for the lock
C26_Witness ==
    /\ mu = "t1"
    /\ task["t1"].pc = "Destroy_delete"
    /\ task["t2"].pc = "Merge_lock"
    /\ task["t2"].arg.token # sd.token

\* C27: Commit, Destroy and RenewToken hold the record's lock from before
\* their Store call until after their in-memory update.  While one of them is
\* between the two, its sub-task holds the lock, no other sub-task completes
\* or advances an operation on the record, and nobody else changes the
\* record; in particular, while the row of the record's token is deleted and
\* the record still has that token, no operation observes the record, and
\* once Destroy or RenewToken has succeeded the record no longer has the
\* token it deleted.
C27_LockAcrossStore ==
    /\ [](\A t \in Tasks :
            /\ task[t].pc \in {"Commit_generate", "Commit_encode", "Destroy_delete",
                               "Destroy_reset", "Renew_delete", "Renew_generate"}
                  => mu = t
            /\ task[t].pc \in {"Destroy_reset", "Renew_generate"}
                  => /\ store[sd.token] = NoRow
                     /\ ret # NoRet => ret.op \in {"Load", "Iterate", "MergeSession"})
    /\ [](sd # NoData /\ hist.prev # NoToken => sd.token # hist.prev)
    /\ [][\A t \in Tasks :
            task[t].pc \in {"Commit_generate", "Commit_encode", "Destroy_delete",
                            "Destroy_reset", "Renew_delete", "Renew_generate"}
            => /\ \A u \in Tasks \ {t} :
                    \/ task'[u] # task[u]
                    \/ ret' # NoRet /\ ret'.task = u
                    => /\ task[u] = Idle
                       /\ \/ task'[u].pc = "Merge_lock"
                          \/ ret' # NoRet /\ ret'.op \in {"Load", "Iterate", "MergeSession"}
                       /\ sd' = sd
               /\ sd' # sd => task'[t] # task[t]
               /\ ret' # NoRet /\ ret'.task = t /\ ret'.err = NoErr
                     /\ ret'.op \in {"Destroy", "RenewToken"} /\ sd.token # NoToken
                     => sd'.token # sd.token /\ store'[sd.token] = NoRow]_vars

\* Destroy, by sub-task t1, has deleted the row and not yet reset the record,
\* which still has the token, while the Save of sub-task t2 waits for the lock
C27_Witness ==
    /\ mu = "t1"
    /\ task["t1"].pc = "Destroy_reset"
    /\ sd.token # NoToken
    /\ store[sd.token] = NoRow
    /\ task["t2"].pc = "Save_Commit"

\* C28: after a successful Destroy of a session with token T the handler goes
\* on with the reset record: reads and Puts succeed on it, every value it
\* has was put after the Destroy, and a Save that follows a Put commits it
\* under a token that Commit generated, different from T, with exactly those
\* values in the row, while the Store has no row under T.
C28_AfterDestroy ==
    /\ [](sd # NoData /\ hist.prev # NoToken =>
            /\ store[hist.prev] = NoRow
            /\ sd.token # hist.prev
            /\ DOMAIN sd.values \subseteq env.keys
            /\ ret # NoRet /\ ret.op \in {"Put", "Get", "Keys", "Token"} => ret.err = NoErr
            /\ ret # NoRet /\ ret.op = "Keys" => ret.val = SortedKeys(sd.values)
            /\ ret # NoRet /\ ret.op = "Token" => ret.val = sd.token
            /\ ret # NoRet /\ ret.op = "Save" /\ ret.err = NoErr /\ ret.calls # <<>> =>
                  /\ ret.token = sd.token
                  /\ ret.token # hist.prev
                  /\ hist.generated = {ret.token}
                  /\ sd.values # EmptyValues
                  /\ DecodeValues(store[ret.token].b) = sd.values
                  /\ DecodeDeadline(store[ret.token].b) = sd.deadline)
    /\ [][sd # NoData /\ sd' # NoData /\ hist.prev # NoToken /\ hist'.prev = hist.prev
          /\ sd'.values # sd.values
          => /\ ret'.op = "Put"
             /\ DOMAIN sd'.values = DOMAIN sd.values \cup {ret'.arg}
             /\ \A k \in DOMAIN sd.values \ {ret'.arg} : sd'.values[k] = sd.values[k]]_vars

\* the earlier session, which had k1, was loaded and destroyed; the handler
\* then put k2 and Save committed a new session that has k2 only
C28_Witness ==
    /\ ret.op = "Save"
    /\ ret.err = NoErr
    /\ hist.prev = 1
    /\ ret.token # 1
    /\ ret.token # NoToken
    /\ DOMAIN DecodeValues(store[ret.token].b) = {"k2"}
    /\ store[1] = NoRow

\* C29: the expiry Commit hands to the Store is never later than the deadline
\* encoded in the same row, so that, the Store not returning a row from its
\* expiry on, a record Load attaches after a Store hit has a deadline later
\* than the current time.
C29_ExpiryWithinDeadline ==
    /\ \A k \in StoreKeys :
          store[k] # NoRow => store[k].expiry <= DecodeDeadline(store[k].b)
    /\ ret.op \in {"Commit", "Save"} /\ ret.err = NoErr /\ ret.calls # <<>> =>
          /\ ret.expiry <= sd.deadline
          /\ store[ret.token].expiry = ret.expiry
          /\ DecodeDeadline(store[ret.token].b) = sd.deadline
    /\ ret.op = "Load" /\ ret.err = NoErr /\ ret.calls = <<"Find", "Decode">> =>
          /\ sd.token = ret.arg.token
          /\ now < store[sd.token].expiry
          /\ now < sd.deadline

\* a Load of a session whose row expires, by the idle timeout, before its
\* deadline, at the last instant before the row expires
C29_Witness ==
    /\ ret.op = "Load"
    /\ ret.err = NoErr
    /\ ret.calls = <<"Find", "Decode">>
    /\ IdleTimeout > 0
    /\ store[sd.token].expiry = now + 1
    /\ store[sd.token].expiry < sd.deadline

\* C30: activity does not extend the deadline.  Get and the typed Gets, Put,
\* Pop, Remove, Clear, Exists, Keys, Status, Save and Commit leave the
\* record's deadline as it was, and Put, Pop, Remove and Clear leave its
\* token as it was; the deadline of a record changes only in Expire, Destroy,
\* RenewToken (with or without an option) and a merging MergeSession.
C30_DeadlineFrame ==
    [][/\ ret' # NoRet /\ ret = NoRet
          /\ ret'.op \in {"Get", "Put", "Pop", "Remove", "Clear", "Exists", "Keys", "Status",
                          "Save", "Commit"} \cup {"Get_" \o type : type \in Types}
          => sd'.deadline = sd.deadline
       /\ ret' # NoRet /\ ret = NoRet /\ ret'.op \in {"Put", "Pop", "Remove", "Clear"}
          => sd'.token = sd.token
       /\ \A t \in Tasks :
            task'[t] # task[t] /\ (task[t].op \in {"Save", "Commit"} \/ task'[t].op \in {"Save", "Commit"})
            => sd'.deadline = sd.deadline
       /\ sd # NoData /\ sd' # NoData /\ sd'.deadline # sd.deadline
          => \/ ret' # NoRet /\ ret'.op \in {"Expire", "Destroy", "RenewToken"}
             \/ \E t \in Tasks : task[t].pc = "Merge_lock" /\ task'[t].pc = "Merge_delete"]_vars

\* a Put, after time has passed, on a record whose deadline is still the one
\* it was created with
C30_Witness ==
    /\ ret.op = "Put"
    /\ now > 1
    /\ sd.deadline < now + Lifetime
    /\ hist.loaded = NoData
    /\ hist.prev = NoToken

\* C31: every response LoadAndSave leaves carries the header Vary: Cookie,
\* whatever Load and Save returned.
C31_VaryAlways ==
    ret.op = "LoadAndSave" => <<"Vary", "Cookie">> \in ret.val.w.sent.values

\* C32: LoadAndSave writes a session cookie exactly when Save returns no
\* error: with the returned token and expiry after a commit, with a negative
\* max-age when the returned expiry is the zero time; when Save returns
\* ErrUnmodified no cookie is written, the handler's buffered response is
\* delivered and errorFunc is not called.
C32_CookieOnSuccess ==
    ret.op = "LoadAndSave" /\ ret.arg.load = NoErr =>
        LET save == ret.arg.save
            cookies == ret.val.w.header.cookies
        IN  /\ cookies # {} <=> save.err = NoErr
            /\ save.err = NoErr /\ save.expiry # ZeroTime =>
                  \A c \in cookies : c.value = save.token /\ c.expires = save.expiry + 1
            /\ save.err = NoErr /\ save.expiry = ZeroTime =>
                  \A c \in cookies : c.maxAge < 0
            /\ save.err = ErrUnmodified =>
                  /\ ret.val.errs = <<>>
                  /\ ret.val.w.body = <<Page>>
                  /\ ret.val.w.code = IF ret.arg.code = 0 THEN 200 ELSE ret.arg.code

\* C33: the Redis Store's find/commit contract.  Right after a Commit(token,
\* b, expiry) that succeeded with an expiry in the future, Find(token)
\* returns (b, true, nil), with the default prefix and with any configured
\* one, also when the Commit overwrote an earlier one.
C33_FindAfterCommit ==
    ret.op = "Commit" /\ ret.calls = <<"Set">> /\ ret.err = NoErr /\ ret.expiry > now =>
        Found(ret.arg) = [b |-> ret.val, exists |-> TRUE]

\* C34: the Redis Store's delete contract.  Right after a Delete(token) that
\* succeeded, the row a Commit(token, ...) wrote is not in Redis and
\* Find(token) returns found = false.
C34_DeleteRemoves ==
    ret.op = "Delete" /\ ret.calls = <<"Del">> /\ ret.err = NoErr =>
        /\ RedisGet(CommitKey(ret.arg)) = NoRow
        /\ ~Found(ret.arg).exists

\* C35: Pop and Remove of a key the record does not have, and Clear of a
\* record with no values, change nothing: status, token, deadline and values
\* stay as they were (an Unmodified record stays Unmodified), Pop returns
\* nil and Clear returns no error.
C35_NoOps ==
    [][/\ ret = NoRet
       /\ ret' # NoRet
       /\ \/ ret'.op \in {"Pop", "Remove"} /\ ret'.arg \notin DOMAIN sd.values
          \/ ret'.op = "Clear" /\ sd.values = EmptyValues
       => /\ sd' = sd
          /\ ret'.err = NoErr
          /\ ret'.op = "Pop" => ret'.val = Nil]_vars

\* a Pop of a key that is absent from a record which has another key
C35_Witness ==
    /\ ret.op = "Pop"
    /\ ret.val = Nil
    /\ ret.arg \notin DOMAIN sd.values
    /\ sd.values # EmptyValues

\* C36: a typed Pop wrapper, when the key is present, removes it and sets the
\* status Modified, whatever the type of the stored value: it returns the
\* value if it has the wrapper's type and the zero value otherwise, the
\* stored value being gone; when the key is absent it returns the zero value
\* and leaves the record as it was.
C36_TypedPop ==
    [][\A type \in PopTypes :
        ret = NoRet /\ ret'.op = "Pop_" \o type =>
            LET key == ret'.arg.key IN
            IF key \in DOMAIN sd.values
            THEN /\ sd' = [sd EXCEPT !.values = DeleteKey(sd.values, key), !.status = Modified]
                 /\ key \notin DOMAIN sd'.values
                 /\ ret'.arg.popped = sd.values[key]
                 /\ ret'.val = IF sd.values[key].type = type THEN sd.values[key] ELSE Zero(type)
            ELSE /\ sd' = sd
                 /\ ret'.arg.popped = Nil
                 /\ ret'.val = Zero(type)]_vars

\* PopString of a key that held a bool: the zero string is returned and the
\* bool is gone
C36_Witness ==
    /\ ret.op = "Pop_string"
    /\ ret.arg.popped = [type |-> "bool", val |-> "v"]
    /\ ret.val = Zero("string")
    /\ ret.arg.key \notin DOMAIN sd.values
    /\ sd.status = Modified

\* C37: Commit leaves the record's status as it is.  After a successful Save
\* the status is still Modified, so a Save that follows with no mutation in
\* between does not return ErrUnmodified: it calls Commit again, which upserts
\* the row again under the same token.
C37_CommitKeepsStatus ==
    /\ [][\A t \in Tasks :
            task'[t] # task[t] /\ (task[t].op \in {"Save", "Commit"} \/ task'[t].op \in {"Save", "Commit"})
            => sd'.status = sd.status]_vars
    /\ [][ret = NoRet /\ ret'.op = "Save" /\ ret'.err = ErrUnmodified
            => sd.status = Unmodified]_vars
    /\ [](ret.op = "Save" /\ ret.err = NoErr /\ ret.calls # <<>> =>
            /\ sd.status = Modified
            /\ ret.arg.prior # NoTask =>
                  /\ ret.calls = <<"Encode", "Commit">>
                  /\ ret.token = ret.arg.token
                  /\ ret.token = sd.token
                  /\ store[ret.token] = [b |-> Encode(sd.deadline, sd.values), expiry |-> ret.expiry])

\* a second successful Save, after time has passed, with no mutation since
\* the first
C37_Witness ==
    /\ ret.op = "Save"
    /\ ret.err = NoErr
    /\ ret.arg.prior = ret.task
    /\ sd.status = Modified
    /\ now > 1
    /\ hist.upserted = {ret.token}

\* C38: with Commit called by Save only, Save never persists a destroyed
\* session, however it interleaves with Destroy: no row is upserted for a
\* record whose status is Destroyed at that moment, and between operations
\* a record whose status is Destroyed has the empty token.
C38_SaveSkipsDestroyed ==
    /\ [][\A t \in Tasks :
            task[t].op = "Save" /\ task[t].pc = "Commit_encode" /\ store' # store
            => sd.status # Destroyed]_vars
    /\ [](/\ sd # NoData
          /\ sd.status = Destroyed
          /\ \A t \in Tasks : task[t] = Idle
          => sd.token = NoToken)

\* C39: whenever MergeSession returns an error, from the Store's find, the
\* Codec's decode or the Store's delete of the foreign token, the record's
\* values, deadline and status are what they were before the call.
C39_MergeErrorUnchanged ==
    [][/\ ret = NoRet /\ ret'.op = "MergeSession" /\ ret'.err # NoErr => sd' = sd
       /\ \A t \in Tasks :
            task[t].pc = "Merge_delete" /\ ret'.op = "MergeSession" /\ ret'.err # NoErr
            => /\ sd'.values = task[t].arg.was.values
               /\ sd'.deadline = task[t].arg.was.deadline
               /\ sd'.status = task[t].arg.was.status]_vars

\* C40: an operation that is about to take the record's lock, or that has
\* returned, does not hold it; hence, every Store and Codec call returning,
\* every operation a sub-task is in completes, whatever the other sub-tasks
\* do, and the lock is free again and again.
C40_Completes ==
    /\ [](\A t \in Tasks :
            task[t] = Idle \/ task[t].pc \in {"Save_Commit", "Merge_lock"} => mu # t)
    /\ \A t \in Tasks : (task[t] # Idle) ~> (task[t] = Idle)
    /\ (mu # Free) ~> (mu = Free)

\* a Save that waits, between Status and Commit, for the lock a Destroy of
\* another sub-task holds
C40_Witness ==
    /\ task["t1"].pc = "Save_Commit"
    /\ task["t2"].pc = "Destroy_delete"
    /\ mu = "t2"

====
